---- MODULE Spec2Model ----
(***************************************************************************)
(* withings2weeks: ISO week resolution (weeks.py), the measure client      *)
(* (measure_client.py) and the fetch-measures command (cli.py).            *)
(*                                                                         *)
(* Conventions                                                             *)
(*   - a str is a sequence of one-character strings;                       *)
(*   - a date is its proleptic Gregorian ordinal (date.toordinal());       *)
(*   - a datetime is [ord, sec, aware, off]: day ordinal, second of the    *)
(*     day, whether it carries a tzinfo and that tzinfo's UTC offset in    *)
(*     seconds;                                                            *)
(*   - a call that raises returns a record with ok = FALSE.                *)
(***************************************************************************)
EXTENDS Integers, Sequences, FiniteSets, TLC

VARIABLES
  wcall,   \* the call made to weeks.py and what it returned
  rows,    \* the samples of the source (CSV rows, or the groups the API holds)
  mcall,   \* the call made to the measure pipeline and what it returned
  \* fetch_scale_measurements_all
  pc,               \* where the call is: idle, calling, waiting, done, raised
  max_pages,        \* its argument: None or Some(cap)
  combined_frames,  \* its local: the frame of each page fetched
  current_offset,   \* its local: None or Some(offset)
  pages,            \* its local: pages fetched
  full,             \* what it returned: None or Some(frame)
  calls,            \* the params of the requests the server received
  replies,          \* the responses the server gave
  \* _transform_measure_groups
  groups,  \* the measure groups of a response body
  tcall,   \* the call made to _transform_measure_groups and what it returned
  \* _read_withings_csv
  header,  \* the header row of the file, one form per expected column so far
  ccall,   \* the call made to _read_withings_csv and what it returned
  \* WithingsOAuthClient
  token_file,   \* .withings_tokens.json in the config dir: None or Some(dict)
  legacy_file,  \* .withings_tokens.json in the working directory, likewise
  clock,        \* time.time(), in seconds
  posts,        \* the payloads the token endpoint received
  acalls        \* the calls made to get_valid_access_token, with their outcomes

pager == <<pc, max_pages, combined_frames, current_offset, pages, full, calls, replies>>

transform == <<groups, tcall>>

csv == <<header, ccall>>

oauth == <<token_file, legacy_file, clock, posts, acalls>>

vars == <<wcall, rows, mcall, pager, transform, csv, oauth>>

(***************************************************************************)
(* Bounds of the inputs.                                                   *)
(***************************************************************************)
\* ISO years the canonical tokens are drawn from (2020 and 2026 have 53 weeks)
MinYear == 2020
MaxYear == 2026
\* week numbers of the generated tokens run 0..MaxWeekNum
MaxWeekNum == 54
\* reference_now ranges over the NowSpan days before and after each 1 January
NowSpan == 2
\* number of samples a source holds
MaxSamples == 3
\* samples of a source of samples taken around New Year
MaxDays == 2
\* seconds the clock runs for, and calls of get_valid_access_token
MaxTime == 3
MaxCalls == 2
\* measure groups in a response body, and measures in all of them together
MaxGroups == 2
MaxMeasures == 2
\* requests one call of fetch_scale_measurements_all is followed for
MaxRequests == 3

Years == MinYear..MaxYear

(***************************************************************************)
(* str helpers (Python built-ins used by weeks.py)                         *)
(***************************************************************************)
DigitChars == <<"0", "1", "2", "3", "4", "5", "6", "7", "8", "9">>

IsDigitChar(c) == \E i \in 1..10 : DigitChars[i] = c

DigitVal(c) == (CHOOSE i \in 1..10 : DigitChars[i] = c) - 1

\* str.strip(): drop leading and trailing whitespace
RECURSIVE LStrip(_)
LStrip(s) == IF s # <<>> /\ Head(s) = " " THEN LStrip(Tail(s)) ELSE s

RECURSIVE RStrip(_)
RStrip(s) ==
  IF s # <<>> /\ s[Len(s)] = " " THEN RStrip(SubSeq(s, 1, Len(s) - 1)) ELSE s

Strip(s) == RStrip(LStrip(s))

\* str.isdigit(): non-empty and every character a digit
IsDigit(s) == s # <<>> /\ \A i \in 1..Len(s) : IsDigitChar(s[i])

RECURSIVE DigitsVal(_)
DigitsVal(s) ==
  IF s = <<>> THEN 0 ELSE 10 * DigitsVal(SubSeq(s, 1, Len(s) - 1)) + DigitVal(s[Len(s)])

\* int(str): surrounding whitespace ignored, one optional sign, then digits;
\* anything else raises ValueError
PyInt(s) ==
  LET t == Strip(s)
      signed == t # <<>> /\ Head(t) \in {"+", "-"}
      body == IF signed THEN Tail(t) ELSE t
  IN  IF IsDigit(body)
      THEN [ok |-> TRUE,
            v |-> IF signed /\ Head(t) = "-" THEN 0 - DigitsVal(body) ELSE DigitsVal(body)]
      ELSE [ok |-> FALSE, v |-> 0]

\* str(int)
RECURSIVE NatToStr(_)
NatToStr(n) ==
  IF n < 10 THEN <<DigitChars[n + 1]>>
  ELSE NatToStr(n \div 10) \o <<DigitChars[(n % 10) + 1]>>

IntToStr(n) == IF n < 0 THEN <<"-">> \o NatToStr(0 - n) ELSE NatToStr(n)

\* str.zfill(2): zeros go after a leading sign
ZFill2(s) ==
  IF Len(s) >= 2 THEN s
  ELSE IF s # <<>> /\ Head(s) \in {"+", "-"} THEN <<Head(s), "0">> \o Tail(s)
  ELSE IF Len(s) = 1 THEN <<"0">> \o s
  ELSE <<"0", "0">>

\* f"{year}W{str(week).zfill(2)}"
WeekCode(year, week) == IntToStr(year) \o <<"W">> \o ZFill2(IntToStr(week))

\* "W" in value
HasW(s) == \E i \in 1..Len(s) : s[i] = "W"

\* value.split("W", 1)
SplitW(s) ==
  LET i == CHOOSE k \in 1..Len(s) : s[k] = "W" /\ \A j \in 1..(k - 1) : s[j] # "W"
  IN  <<SubSeq(s, 1, i - 1), SubSeq(s, i + 1, Len(s))>>

(***************************************************************************)
(* datetime helpers (the standard library's proleptic Gregorian and ISO    *)
(* calendar arithmetic)                                                    *)
(***************************************************************************)
MINYEAR == 1
MAXYEAR == 9999

IsLeap(y) == y % 4 = 0 /\ (y % 100 # 0 \/ y % 400 = 0)

DaysBeforeYear(y) ==
  LET p == y - 1 IN p * 365 + (p \div 4) - (p \div 100) + (p \div 400)

DaysInMonth(y, m) ==
  IF m = 2 THEN (IF IsLeap(y) THEN 29 ELSE 28)
  ELSE IF m \in {4, 6, 9, 11} THEN 30 ELSE 31

RECURSIVE DaysBeforeMonth(_, _)
DaysBeforeMonth(y, m) ==
  IF m = 1 THEN 0 ELSE DaysBeforeMonth(y, m - 1) + DaysInMonth(y, m - 1)

\* date(y, m, d).toordinal()
Ymd2Ord(y, m, d) == DaysBeforeYear(y) + DaysBeforeMonth(y, m) + d

\* date.fromordinal(n).year
OrdYear(n) ==
  CHOOSE y \in (n \div 366)..((n \div 365) + 1) :
    DaysBeforeYear(y) < n /\ n <= DaysBeforeYear(y + 1)

\* date.weekday(): Monday is 0
Weekday(n) == (n + 6) % 7

\* ordinal of the Monday of ISO week 1 of the year
IsoWeek1Monday(y) ==
  LET firstday == Ymd2Ord(y, 1, 1)
      firstweekday == (firstday + 6) % 7
      week1monday == firstday - firstweekday
  IN  IF firstweekday > 3 THEN week1monday + 7 ELSE week1monday

\* date.isocalendar() of the date with ordinal n: [year, week, weekday]
IsoCalendar(n) ==
  LET year == OrdYear(n)
      w1 == IsoWeek1Monday(year)
      week == (n - w1) \div 7
  IN  IF n < w1
      THEN LET p1 == IsoWeek1Monday(year - 1)
           IN  [year |-> year - 1, week |-> ((n - p1) \div 7) + 1,
                weekday |-> ((n - p1) % 7) + 1]
      ELSE IF week >= 52 /\ n >= IsoWeek1Monday(year + 1)
      THEN [year |-> year + 1, week |-> 1,
            weekday |-> ((n - IsoWeek1Monday(year + 1)) % 7) + 1]
      ELSE [year |-> year, week |-> week + 1, weekday |-> ((n - w1) % 7) + 1]

\* the year has an ISO week 53: it starts on a Thursday, or it is a leap
\* year starting on a Wednesday
HasWeek53(y) ==
  LET first_weekday == Ymd2Ord(y, 1, 1) % 7
  IN  first_weekday = 4 \/ (first_weekday = 3 /\ IsLeap(y))

\* datetime.fromisocalendar(year, week, 1): ordinal of the Monday, or ValueError
FromIsoCalendar(year, week) ==
  IF year < MINYEAR \/ year > MAXYEAR THEN [ok |-> FALSE, ord |-> 0]
  ELSE IF ~(0 < week /\ week < 53) /\ ~(week = 53 /\ HasWeek53(year))
  THEN [ok |-> FALSE, ord |-> 0]
  ELSE [ok |-> TRUE, ord |-> IsoWeek1Monday(year) + (week - 1) * 7]

\* tzinfo values: None, or a fixed offset in seconds
NoTz == [aware |-> FALSE, off |-> 0]

FixedTz(off) == [aware |-> TRUE, off |-> off]

DateTime(n, sec, tz) == [ord |-> n, sec |-> sec, aware |-> tz.aware, off |-> tz.off]

\* a - b in seconds, for datetimes that are both naive or both aware
SecondsBetween(a, b) ==
  ((a.ord - b.ord) * 86400) + (a.sec - b.sec) - (a.off - b.off)

(***************************************************************************)
(* weeks.py                                                                *)
(***************************************************************************)
Raised == [ok |-> FALSE]

\* Body applied to the value of v, with v evaluated once (a local variable)
Bind(v, Body(_)) == CHOOSE r \in {Body(x) : x \in {v}} : TRUE

\* parse_week_str resolving a bare week number against the calendar year
parse_week_str_calendar_year(value, now) ==
  LET Checked(year, week_num) ==
        IF ~(1 <= week_num /\ week_num <= 53) THEN Raised
        ELSE [ok |-> TRUE, year |-> year, week |-> week_num]
      Full(y, w) == IF ~(y.ok /\ w.ok) THEN Raised ELSE Checked(y.v, w.v)
      Stripped(v) ==
        IF v = <<>> THEN Raised
        ELSE IF HasW(v) THEN Full(PyInt(SplitW(v)[1]), PyInt(SplitW(v)[2]))
        ELSE IF ~IsDigit(v) THEN Raised
        ELSE Checked(OrdYear(now), DigitsVal(v))
  IN  Bind(Strip(value), Stripped)

\* parse_week_str with the range check admitting week 0
parse_week_str_from_zero(value, now) ==
  LET Checked(year, week_num) ==
        IF ~(0 <= week_num /\ week_num <= 53) THEN Raised
        ELSE [ok |-> TRUE, year |-> year, week |-> week_num]
      Full(y, w) == IF ~(y.ok /\ w.ok) THEN Raised ELSE Checked(y.v, w.v)
      Stripped(v) ==
        IF v = <<>> THEN Raised
        ELSE IF HasW(v) THEN Full(PyInt(SplitW(v)[1]), PyInt(SplitW(v)[2]))
        ELSE IF ~IsDigit(v) THEN Raised
        ELSE Checked(IsoCalendar(now).year, DigitsVal(v))
  IN  Bind(Strip(value), Stripped)

\* parse_week_str(value, now): now is the ordinal of the reference date
parse_week_str(value, now) ==
  LET Checked(year, week_num) ==
        IF ~(1 <= week_num /\ week_num <= 53) THEN Raised
        ELSE [ok |-> TRUE, year |-> year, week |-> week_num]
      Full(y, w) == IF ~(y.ok /\ w.ok) THEN Raised ELSE Checked(y.v, w.v)
      Stripped(v) ==
        IF v = <<>> THEN Raised
        ELSE IF HasW(v) THEN Full(PyInt(SplitW(v)[1]), PyInt(SplitW(v)[2]))
        ELSE IF ~IsDigit(v) THEN Raised
        ELSE Checked(IsoCalendar(now).year, DigitsVal(v))
  IN  Bind(Strip(value), Stripped)

\* week_start(year, week_num, tz): Monday 00:00 of the ISO week
week_start(year, week_num, tz) ==
  LET Monday(d) == IF d.ok THEN [ok |-> TRUE, dt |-> DateTime(d.ord, 0, tz)] ELSE Raised
  IN  Bind(FromIsoCalendar(year, week_num), Monday)

\* week_following_start with the fallback left out
week_following_start_same_year(year, week_num, tz) == week_start(year, week_num + 1, tz)

\* week_following_start(year, week_num, tz)
week_following_start(year, week_num, tz) ==
  LET Except(same) == IF same.ok THEN same ELSE week_start(year + 1, 1, tz)
  IN  Bind(week_start(year, week_num + 1, tz), Except)

\* Optional values: None, or Some(x)
None == <<>>

Some(x) == <<x>>

\* explicit_end with the boundary left at the Monday of the end week itself
explicit_end_same_week(end_week, now, tz) ==
  LET Parsed(e) ==
        LET Ended(boundary) ==
              IF ~boundary.ok THEN Raised
              ELSE [ok |-> TRUE, end_boundary |-> boundary.dt,
                    end_week_code |-> WeekCode(e.year, e.week)]
        IN  IF ~e.ok THEN Raised ELSE Bind(week_start(e.year, e.week, tz), Ended)
  IN  Bind(parse_week_str(end_week, now), Parsed)

\* resolve_week_range, the branch for a given end_week
explicit_end(end_week, now, tz) ==
  LET Parsed(e) ==
        LET Ended(following) ==
              IF ~following.ok THEN Raised
              ELSE [ok |-> TRUE, end_boundary |-> following.dt,
                    end_week_code |-> WeekCode(e.year, e.week)]
        IN  IF ~e.ok THEN Raised ELSE Bind(week_following_start(e.year, e.week, tz), Ended)
  IN  Bind(parse_week_str(end_week, now), Parsed)

\* default_end with the previous week taken as the week number minus one
default_end_week_minus_one(now, tz) ==
  LET Current(iso) ==
        LET Ended(current_week_start) ==
              IF ~current_week_start.ok THEN Raised
              ELSE [ok |-> TRUE, end_boundary |-> current_week_start.dt,
                    end_week_code |-> WeekCode(iso.year, iso.week - 1)]
        IN  Bind(week_start(iso.year, iso.week, tz), Ended)
  IN  Bind(IsoCalendar(now), Current)

\* resolve_week_range, the branch for end_week None
default_end(now, tz) ==
  LET Previous(current_week_start, prev_iso) ==
        [ok |-> TRUE, end_boundary |-> current_week_start.dt,
         end_week_code |-> WeekCode(prev_iso.year, prev_iso.week)]
      Current(iso) ==
        LET Ended(current_week_start) ==
              IF ~current_week_start.ok THEN Raised
              ELSE Previous(current_week_start, IsoCalendar(current_week_start.dt.ord - 7))
        IN  Bind(week_start(iso.year, iso.week, tz), Ended)
  IN  Bind(IsoCalendar(now), Current)

\* resolve_week_range that refuses a range whose end is not after its start
resolve_week_range_ordered(start_week, end_week, now, tz) ==
  LET Started(s) ==
        LET Ended(start_dt, e) ==
              IF ~e.ok THEN Raised
              ELSE IF SecondsBetween(e.end_boundary, start_dt.dt) <= 0 THEN Raised
              ELSE [ok |-> TRUE, start |-> start_dt.dt, end |-> e.end_boundary,
                    start_week_code |-> WeekCode(s.year, s.week),
                    end_week_code |-> e.end_week_code]
            Ending(start_dt) ==
              IF ~start_dt.ok THEN Raised
              ELSE IF end_week # None
              THEN Ended(start_dt, explicit_end(end_week[1], now, tz))
              ELSE Ended(start_dt, default_end(now, tz))
        IN  IF ~s.ok THEN Raised ELSE Bind(week_start(s.year, s.week, tz), Ending)
  IN  Bind(parse_week_str(start_week, now), Started)

\* resolve_week_range(start_week, end_week, now, tz); end_week is None or
\* Some(token)
resolve_week_range(start_week, end_week, now, tz) ==
  LET Started(s) ==
        LET Ended(start_dt, e) ==
              IF ~e.ok THEN Raised
              ELSE [ok |-> TRUE, start |-> start_dt.dt, end |-> e.end_boundary,
                    start_week_code |-> WeekCode(s.year, s.week),
                    end_week_code |-> e.end_week_code]
            Ending(start_dt) ==
              IF ~start_dt.ok THEN Raised
              ELSE IF end_week # None
              THEN Ended(start_dt, explicit_end(end_week[1], now, tz))
              ELSE Ended(start_dt, default_end(now, tz))
        IN  IF ~s.ok THEN Raised ELSE Bind(week_start(s.year, s.week, tz), Ending)
  IN  Bind(parse_week_str(start_week, now), Started)

(***************************************************************************)
(* Numbers: a cell of a numeric column is NaN or an exact rational n / d    *)
(***************************************************************************)
RECURSIVE Gcd(_, _)
Gcd(a, b) == IF b = 0 THEN a ELSE Gcd(b, a % b)

Abs(x) == IF x < 0 THEN 0 - x ELSE x

NaN == [nan |-> TRUE, n |-> 0, d |-> 1]

Rat(n, d) ==
  LET g == Gcd(Abs(n), Abs(d))
      sgn == IF d < 0 THEN 0 - 1 ELSE 1
  IN  [nan |-> FALSE, n |-> (sgn * n) \div g, d |-> (sgn * d) \div g]

Num(x) == Rat(x, 1)

RatAdd(a, b) == Rat(a.n * b.d + b.n * a.d, a.d * b.d)

RECURSIVE RatSum(_)
RatSum(xs) == IF xs = <<>> THEN Num(0) ELSE RatAdd(Head(xs), Bind(Tail(xs), RatSum))

IsNumber(c) == ~c.nan

\* Series.mean(): the mean of the cells that are not NaN, NaN when there
\* are none
Mean(cells) ==
  LET Averaged(xs) ==
        LET Divided(total) == Rat(total.n, total.d * Len(xs))
        IN  IF xs = <<>> THEN NaN ELSE Bind(RatSum(xs), Divided)
  IN  Bind(SelectSeq(cells, IsNumber), Averaged)

(***************************************************************************)
(* Orderings pandas sorts group keys by                                    *)
(***************************************************************************)
\* code point of a character of a week code
CharRank(c) == IF IsDigitChar(c) THEN 48 + DigitVal(c) ELSE IF c = "W" THEN 87 ELSE 45

RECURSIVE StrLess(_, _)
StrLess(a, b) ==
  IF b = <<>> THEN FALSE
  ELSE IF a = <<>> THEN TRUE
  ELSE IF Head(a) # Head(b) THEN CharRank(Head(a)) < CharRank(Head(b))
  ELSE StrLess(Tail(a), Tail(b))

RECURSIVE SortedInts(_)
SortedInts(S) ==
  IF S = {} THEN <<>>
  ELSE LET Least(m) == <<m>> \o Bind(S \ {m}, SortedInts)
       IN  Bind(CHOOSE x \in S : \A y \in S : x <= y, Least)

RECURSIVE SortedStrs(_)
SortedStrs(S) ==
  IF S = {} THEN <<>>
  ELSE LET Least(m) == <<m>> \o Bind(S \ {m}, SortedStrs)
       IN  Bind(CHOOSE x \in S : \A y \in S \ {x} : StrLess(x, y), Least)

\* the elements of a sequence, as a set
Range(f) == {f[i] : i \in DOMAIN f}

(***************************************************************************)
(* measure_client.py: pivot_scale_measurements_weekly                      *)
(*                                                                         *)
(* A DataFrame is [rows, numeric, aware]: its rows in order, each         *)
(* [ts, vals] with vals a cell per value column; the value columns whose   *)
(* dtype is numeric (a column holding nothing but None has dtype object);  *)
(* and whether the dtype of its timestamp column is tz-aware (the column   *)
(* of an empty frame is not).                                              *)
(***************************************************************************)
\* the keys of value_cols
ValueCols == {"weight_kg", "muscle_mass_kg", "hydration_kg", "fat_mass_kg", "bone_mass_kg"}

\* DataFrame(records) of records stamped in UTC: a column with no number in
\* it gets dtype object
FrameOfRecords(rs) ==
  [rows |-> rs,
   numeric |-> {c \in ValueCols : \E i \in 1..Len(rs) : ~rs[i].vals[c].nan},
   aware |-> rs # <<>>]

\* the cells of column c in the rows that satisfy Keep
Column(rs, c, Keep(_)) ==
  LET Cells(kept) == [i \in 1..Len(kept) |-> kept[i].vals[c]]
  IN  Bind(SelectSeq(rs, Keep), Cells)

\* the first stage with every sample kept as a row of its own
DailyAveragesPerSample(df) ==
  [i \in 1..Len(df.rows) |->
     [date |-> df.rows[i].ts.ord, vals |-> [c \in df.numeric |-> df.rows[i].vals[c]]]]

\* the daily averages: one row per calendar date of the timestamps, in
\* ascending order, with the mean of each numeric column
DailyAverages(df) ==
  LET Grouped(dates) ==
        [k \in 1..Len(dates) |->
           LET OnDate(r) == r.ts.ord = dates[k]
           IN  [date |-> dates[k],
                vals |-> [c \in df.numeric |-> Mean(Column(df.rows, c, OnDate))]]]
  IN  Bind(SortedInts({df.rows[i].ts.ord : i \in 1..Len(df.rows)}), Grouped)

\* the label with the calendar year of the date in place of its ISO year
WeekNumberCalendarYear(date) ==
  LET Label(iso) == WeekCode(OrdYear(date), iso.week) IN Bind(IsoCalendar(date), Label)

\* the label of the ISO week of a date
WeekNumber(date) ==
  LET Label(iso) == WeekCode(iso.year, iso.week) IN Bind(IsoCalendar(date), Label)

\* the second stage with every daily row kept as a row of its own
WeeklyAveragesPerDay(daily, numeric) ==
  [k \in 1..Len(daily) |->
     [week |-> WeekNumber(daily[k].date), vals |-> [c \in numeric |-> daily[k].vals[c]]]]

\* the weekly averages of the daily rows: one row per week label, in
\* ascending label order, with the mean of each numeric column
WeeklyAverages(daily, numeric) ==
  LET Grouped(labels) ==
        [k \in 1..Len(labels) |->
           LET InWeek(r) == WeekNumber(r.date) = labels[k]
           IN  [week |-> labels[k],
                vals |-> [c \in numeric |-> Mean(Column(daily, c, InWeek))]]]
  IN  Bind(SortedStrs({WeekNumber(daily[i].date) : i \in 1..Len(daily)}), Grouped)

\* value_cols: the value columns and the labels they are renamed to, in
\* the order of the dict
value_cols ==
  << <<"weight_kg", "Weight (kg)">>, <<"muscle_mass_kg", "Muscle mass (kg)">>,
     <<"hydration_kg", "Hydration (kg)">>, <<"fat_mass_kg", "Fat mass (kg)">>,
     <<"bone_mass_kg", "Bone mass (kg)">> >>

\* the keys of a dict, and list(d.values())
Keys(d) == [i \in 1..Len(d) |-> d[i][1]]

Labels(d) == [i \in 1..Len(d) |-> d[i][2]]

\* the table for an empty frame with the columns left under their keys
EmptyWeeklyUnrenamed(df) ==
  [ok |-> TRUE, table |-> <<>>, columns |-> <<"Week number">> \o Keys(value_cols)]

\* the table returned for an empty frame: no rows, the output columns
EmptyWeekly(df) ==
  [ok |-> TRUE, table |-> <<>>, columns |-> <<"Week number">> \o Labels(value_cols)]

\* pivot_scale_measurements_weekly(df): the weekly table, or KeyError when
\* the column selection asks for a column the averaging dropped
pivot_scale_measurements_weekly(df) ==
  IF df.rows = <<>> THEN EmptyWeekly(df)
  ELSE IF df.numeric # ValueCols THEN Raised
  ELSE LET Weekly(daily) ==
             [ok |-> TRUE, table |-> WeeklyAverages(daily, df.numeric),
              columns |-> <<"Week number">> \o Labels(value_cols)]
       IN  Bind(DailyAverages(df), Weekly)

(***************************************************************************)
(* cli.py: fetch_measures                                                  *)
(***************************************************************************)
UTC == FixedTz(0)

\* datetime.timestamp() of an aware datetime: seconds since 1970-01-01 UTC
Instant(dt) == ((dt.ord - Ymd2Ord(1970, 1, 1)) * 86400) + dt.sec - dt.off

\* the position of a datetime on its own time line: the instant when it is
\* aware, the wall clock reading when it is naive
Reading(dt) == IF dt.aware THEN Instant(dt) ELSE Instant([dt EXCEPT !.off = 0])

\* Series >= datetime and Series < datetime: pandas raises TypeError when
\* the dtype of the column is tz-naive and the datetime tz-aware, or the
\* other way round
Comparable(df, dt) == df.aware = dt.aware

\* raw_df[(raw_df["timestamp"] >= start_date) & (raw_df["timestamp"] < end_date)]
InWindow(r, start_date, end_date) ==
  Reading(start_date) <= Reading(r.ts) /\ Reading(r.ts) < Reading(end_date)

WindowFilter(df, start_date, end_date) ==
  LET Keep(r) == InWindow(r, start_date, end_date)
  IN  [df EXCEPT !.rows = SelectSeq(df.rows, Keep)]

\* the rows of a source stamped in the timezone its timestamps carry: None
\* or a fixed offset for the Date column of a CSV file, UTC for the API
Stamped(src, tz) ==
  [i \in 1..Len(src) |->
     [ts |-> DateTime(src[i].at[1], src[i].at[2], tz), vals |-> src[i].vals]]

\* raw_df of the file path: read_csv gives every value column a numeric
\* dtype, to_datetime a tz-aware Date column when the dates carry an offset
FrameOfCsv(src, tz) ==
  [rows |-> Stamped(src, tz), numeric |-> ValueCols, aware |-> src # <<>> /\ tz.aware]

\* raw_df of the API path: the frame fetch_scale_measurements_all returns
FrameOfApi(src) == FrameOfRecords(Stamped(src, UTC))

\* fetch_measures(week, end_week, file_source): resolves the range in the
\* local timezone, filters the samples of the source to it and pivots them;
\* raw_df in the outcome is the frame handed to the pivot, if it got there
fetch_measures(week, end_week, now, local_tz, path, raw_df) ==
  LET Ranged(week_range) ==
        LET Filtered(filtered) ==
              LET Pivoted(weekly_df) ==
                    IF ~weekly_df.ok THEN [ok |-> FALSE, raw_df |-> filtered.rows]
                    ELSE [ok |-> TRUE, week_range |-> week_range,
                          raw_df |-> filtered.rows, weekly_df |-> weekly_df.table]
              IN  Bind(pivot_scale_measurements_weekly(filtered), Pivoted)
        IN  IF ~week_range.ok THEN Raised
            ELSE IF (path = "file" \/ raw_df.rows # <<>>)
                    /\ ~Comparable(raw_df, week_range.start)
            THEN Raised
            ELSE Bind(IF path = "file" \/ raw_df.rows # <<>>
                      THEN WindowFilter(raw_df, week_range.start, week_range.end)
                      ELSE raw_df,
                      Filtered)
  IN  Bind(resolve_week_range(week, end_week, now, local_tz), Ranged)

(***************************************************************************)
(* Inputs of the week resolver                                             *)
(***************************************************************************)
\* canonical tokens YYYYWww, including week numbers no year has
CanonTokens == {WeekCode(y, w) : y \in Years, w \in 0..MaxWeekNum}

\* bare week numbers, with and without the leading zero
ShortTokens ==
  {IntToStr(w) : w \in {0, 1, 5, 43, 53, 54, 123}} \cup {ZFill2(IntToStr(w)) : w \in {0, 1, 5}}

\* tokens of other shapes
OddTokens ==
  { <<>>, <<" ">>, <<"A", "B">>, <<"W">>, <<"-", "5">>, <<"+", "5">>,
    <<" ", "0", "5", " ">>,
    <<"2", "0", "2", "5", "X", "4", "3">>,
    <<"2", "0", "2", "5", "w", "4", "3">>,
    <<"2", "0", "2", "5", "W", "9", "9">>,
    <<"2", "0", "2", "5", "W">>,
    <<"W", "0", "5">>,
    <<"2", "0", "2", "5", "W", "5">>,
    <<"2", "0", "2", "5", "W", "+", "5">>,
    <<"2", "0", "2", "5", "W", "-", "5">>,
    <<"2", "0", "2", "5", "W", "4", "W", "3">>,
    <<"2", "0", "2", "5", " ", "W", " ", "0", "5">>,
    <<"2", "0", " ", "2", "5", "W", "0", "5">>,
    <<"0", "W", "0", "1">>,
    <<"-", "2", "0", "2", "5", "W", "0", "5">> }

Tokens == CanonTokens \cup ShortTokens \cup OddTokens

\* the tokens resolve_week_range is tried on
StartTokens ==
  {WeekCode(y, w) : y \in Years, w \in {1, 53}}
    \cup {WeekCode(2025, 40), WeekCode(2024, 52)}
    \cup {<<"5">>, <<"5", "3">>, <<"0">>, <<>>, <<"0", "W", "0", "1">>}

EndTokens ==
  {WeekCode(y, w) : y \in Years, w \in {1, 52, 53, MaxWeekNum}}
    \cup {WeekCode(2025, 42)}
    \cup {<<"5">>, <<"5", "3">>, <<"A", "B">>}

\* reference dates: the days around each New Year, 26 October 2025 and
\* 4 January 2021 (the Monday of 2021W01, after the 53-week year 2020)
Nows ==
  {Ymd2Ord(y, 12, 32 - k) : y \in Years, k \in 1..NowSpan}
    \cup {Ymd2Ord(y, 1, k) : y \in Years, k \in 1..NowSpan}
    \cup {Ymd2Ord(2025, 10, 26), Ymd2Ord(2021, 1, 4)}

TimeZones == {NoTz, FixedTz(7200)}

(***************************************************************************)
(* The week resolver: each action applies one function of weeks.py to      *)
(* inputs it draws and records the call; a run makes one call.             *)
(***************************************************************************)
\* fetch_scale_measurements_all not called
PagerIdle ==
  /\ pc = "idle"
  /\ max_pages = None
  /\ combined_frames = <<>>
  /\ current_offset = None
  /\ pages = 0
  /\ full = None
  /\ calls = <<>>
  /\ replies = <<>>

\* _transform_measure_groups not called
TransformIdle == groups = <<>> /\ tcall = [fn |-> "none"]

\* _read_withings_csv not called
CsvIdle == header = <<>> /\ ccall = [fn |-> "none"]

\* no token stored, get_valid_access_token not called
TokenIdle ==
  token_file = None /\ legacy_file = None /\ clock = 0 /\ posts = <<>> /\ acalls = <<>>

InitWeeks == wcall = [fn |-> "none"] /\ rows = <<>> /\ mcall = [fn |-> "none"] /\ PagerIdle /\ TransformIdle /\ CsvIdle /\ TokenIdle

ParseWeekStr ==
  /\ wcall.fn = "none"
  /\ \E value \in Tokens, now \in Nows :
       wcall' = [fn |-> "parse_week_str", value |-> value, now |-> now,
                 ret |-> parse_week_str(value, now)]
  /\ UNCHANGED <<rows, mcall, pager, transform, csv, oauth>>

WeekStart ==
  /\ wcall.fn = "none"
  /\ \E year \in Years, week_num \in 0..MaxWeekNum, tz \in TimeZones :
       wcall' = [fn |-> "week_start", year |-> year, week_num |-> week_num, tz |-> tz,
                 ret |-> week_start(year, week_num, tz)]
  /\ UNCHANGED <<rows, mcall, pager, transform, csv, oauth>>

WeekFollowingStart ==
  /\ wcall.fn = "none"
  /\ \E year \in Years, week_num \in 0..MaxWeekNum, tz \in TimeZones :
       wcall' = [fn |-> "week_following_start", year |-> year, week_num |-> week_num,
                 tz |-> tz, ret |-> week_following_start(year, week_num, tz)]
  /\ UNCHANGED <<rows, mcall, pager, transform, csv, oauth>>

ResolveWeekRange ==
  /\ wcall.fn = "none"
  /\ \E start_week \in StartTokens, end_week \in {None} \cup {Some(t) : t \in EndTokens},
        now \in Nows, tz \in TimeZones :
       wcall' = [fn |-> "resolve_week_range", start_week |-> start_week,
                 end_week |-> end_week, now |-> now, tz |-> tz,
                 ret |-> resolve_week_range(start_week, end_week, now, tz)]
  /\ UNCHANGED <<rows, mcall, pager, transform, csv, oauth>>

NextWeeks == ParseWeekStr \/ WeekStart \/ WeekFollowingStart \/ ResolveWeekRange

SpecWeeks == InitWeeks /\ [][NextWeeks]_vars

(***************************************************************************)
(* The measure pipeline: the source is filled sample by sample, then one   *)
(* call is made on it.                                                     *)
(***************************************************************************)
\* timestamps of the samples: around Monday 30 December 2024 (the start of
\* 2025W01) and Monday 6 January 2025 (the start of 2025W02), at 00:00 and
\* at 22:00 the evening before
TimePoints ==
  << <<Ymd2Ord(2024, 12, 29), 22 * 3600>>, <<Ymd2Ord(2024, 12, 30), 0>>,
     <<Ymd2Ord(2024, 12, 31), 0>>, <<Ymd2Ord(2025, 1, 5), 22 * 3600>>,
     <<Ymd2Ord(2025, 1, 6), 0>> >>

\* the values of a sample: weight and fat mass vary, the rest is fixed
SampleVals(weight, fat) ==
  [c \in ValueCols |->
     IF c = "weight_kg" THEN weight ELSE IF c = "fat_mass_kg" THEN fat ELSE Num(3)]

SampleValues ==
  {SampleVals(Num(70), Num(16)), SampleVals(Num(81), Num(16)),
   SampleVals(NaN, Num(16)), SampleVals(Num(81), NaN)}

\* datetime.now().astimezone().tzinfo: the local timezone, never None
LocalTimeZones == {FixedTz(0), FixedTz(7200)}

\* the timezone of the Date column of a CSV file: none, or an offset
FileTimeZones == {NoTz, FixedTz(7200)}

\* the week asked for, and the day of the call
W2025_01 == <<"2", "0", "2", "5", "W", "0", "1">>

Today == Ymd2Ord(2025, 10, 26)

InitMeasures == wcall = [fn |-> "none"] /\ rows = <<>> /\ mcall = [fn |-> "none"] /\ PagerIdle /\ TransformIdle /\ CsvIdle /\ TokenIdle

\* the source gets one more sample, no earlier than its last one
AddSample ==
  /\ mcall.fn = "none"
  /\ Len(rows) < MaxSamples
  /\ \E t \in 1..Len(TimePoints), v \in SampleValues :
       /\ rows # <<>> => \E u \in 1..t : rows[Len(rows)].at = TimePoints[u]
       /\ rows' = Append(rows, [at |-> TimePoints[t], vals |-> v])
  /\ UNCHANGED <<wcall, mcall, pager, transform, csv, oauth>>

\* pivot_scale_measurements_weekly called on the samples
PivotWeekly ==
  /\ mcall.fn = "none"
  /\ \E df \in {FrameOfApi(rows)} :
       mcall' = [fn |-> "pivot_scale_measurements_weekly",
                 ret |-> pivot_scale_measurements_weekly(df)]
  /\ UNCHANGED <<wcall, rows, pager, transform, csv, oauth>>

\* the frame without one of its value columns
WithoutColumn(df, c) == [df EXCEPT !.numeric = @ \ {c}]

\* pivot_scale_measurements_weekly called on the samples with a value
\* column left out of the table
PivotWeeklyLacking ==
  /\ mcall.fn = "none"
  /\ \E c \in ValueCols : \E df \in {WithoutColumn(FrameOfApi(rows), c)} :
       mcall' = [fn |-> "pivot_scale_measurements_weekly", lacking |-> c,
                 ret |-> pivot_scale_measurements_weekly(df)]
  /\ UNCHANGED <<wcall, rows, pager, transform, csv, oauth>>

\* fetch-measures --file-source: the samples are the rows of the CSV file
FetchMeasuresFile ==
  /\ mcall.fn = "none"
  /\ \E local_tz \in LocalTimeZones, file_tz \in FileTimeZones, week \in {W2025_01},
          now \in {Today} :
       \E raw_df \in {FrameOfCsv(rows, file_tz)} :
         mcall' = [fn |-> "fetch_measures", path |-> "file", week |-> week,
                   end_week |-> Some(week), now |-> now, local_tz |-> local_tz,
                   source_tz |-> file_tz,
                   ret |-> fetch_measures(week, Some(week), now, local_tz, "file", raw_df)]
  /\ UNCHANGED <<wcall, rows, pager, transform, csv, oauth>>

\* fetch-measures: the samples are the groups the API returned
FetchMeasuresApi ==
  /\ mcall.fn = "none"
  /\ \E local_tz \in LocalTimeZones, raw_df \in {FrameOfApi(rows)}, week \in {W2025_01},
          now \in {Today} :
       mcall' = [fn |-> "fetch_measures", path |-> "api", week |-> week,
                 end_week |-> Some(week), now |-> now, local_tz |-> local_tz,
                 source_tz |-> UTC,
                 ret |-> fetch_measures(week, Some(week), now, local_tz, "api", raw_df)]
  /\ UNCHANGED <<wcall, rows, pager, transform, csv, oauth>>

NextMeasures == AddSample \/ PivotWeekly \/ FetchMeasuresFile \/ FetchMeasuresApi

SpecMeasures == InitMeasures /\ [][NextMeasures]_vars

\* the pivot on tables that lack a column
NextLacking == AddSample \/ PivotWeeklyLacking

SpecLacking == InitMeasures /\ [][NextLacking]_vars

\* the days around New Year, where calendar year and ISO year differ
NewYearDates ==
  {Ymd2Ord(y, 12, d) : y \in Years, d \in {30, 31}} \cup {Ymd2Ord(y, 1, d) : y \in Years, d \in {1, 2}}

\* the source gets one more sample, taken at midnight UTC of a day around
\* New Year no earlier than its last one
AddNewYearSample ==
  /\ mcall.fn = "none"
  /\ Len(rows) < MaxDays
  /\ \E date \in NewYearDates, weight \in {Num(70), Num(81)} :
       /\ rows # <<>> => rows[Len(rows)].at[1] <= date
       /\ rows' = Append(rows, [at |-> <<date, 0>>, vals |-> SampleVals(weight, Num(16))])
  /\ UNCHANGED <<wcall, mcall, pager, transform, csv, oauth>>

NextNewYear == AddNewYearSample \/ PivotWeekly

SpecNewYear == InitMeasures /\ [][NextNewYear]_vars

(***************************************************************************)
(* measure_client.py: fetch_scale_measurements and                         *)
(* fetch_scale_measurements_all against a server that answers each request *)
(* as it likes.  A page frame is the sequence of its rows                  *)
(* [group_id, timestamp, weight_kg], timestamp in unix seconds.            *)
(***************************************************************************)
\* params with the offset left out whenever it is falsy
RequestParamsTruthy(offset) ==
  IF offset # None /\ offset[1] # 0
  THEN [action |-> "getmeas", offset |-> offset[1]]
  ELSE [action |-> "getmeas"]

\* the params of a getmeas request: the offset is sent unless it is None
RequestParams(offset) ==
  IF offset # None
  THEN [action |-> "getmeas", offset |-> offset[1]]
  ELSE [action |-> "getmeas"]

\* the measure groups a server holds: two groups, and group 1 again with an
\* earlier date and another weight
Grp1 == [group_id |-> 1, timestamp |-> 1700000000, weight_kg |-> 80000]

Grp2 == [group_id |-> 2, timestamp |-> 1700000100, weight_kg |-> 80100]

Grp1Redated == [group_id |-> 1, timestamp |-> 1699999900, weight_kg |-> 79900]

PageGroups == {<<>>, <<Grp1>>, <<Grp2>>, <<Grp1Redated>>}

\* the responses of the server: an HTTP error, an API error status, a
\* measuregrps that is no list (None), or a page with its more flag and
\* its offset (None when the body has none)
Responses ==
  {[status_code |-> 500, status |-> 0, measuregrps |-> Some(<<>>), more |-> 0, offset |-> None],
   [status_code |-> 200, status |-> 401, measuregrps |-> Some(<<>>), more |-> 0, offset |-> None],
   [status_code |-> 200, status |-> 0, measuregrps |-> None, more |-> 0, offset |-> None]}
  \cup
  {[status_code |-> 200, status |-> 0, measuregrps |-> Some(g), more |-> m, offset |-> o] :
     g \in PageGroups, m \in {0, 1}, o \in {None, Some(0), Some(123)}}

\* the rows of a frame in ascending timestamp order (sort_values)
RECURSIVE SortByTimestamp(_)
SortByTimestamp(df) ==
  IF df = <<>> THEN <<>>
  ELSE LET Least(i) ==
             <<df[i]>> \o SortByTimestamp(SubSeq(df, 1, i - 1) \o SubSeq(df, i + 1, Len(df)))
       IN  Least(CHOOSE i \in 1..Len(df) :
                   /\ \A j \in 1..Len(df) : df[i].timestamp <= df[j].timestamp
                   /\ \A j \in 1..(i - 1) : df[j].timestamp # df[i].timestamp)

\* drop_duplicates("group_id", keep="last")
DropDuplicatesKeepLast(df) ==
  LET kept == {i \in 1..Len(df) : \A j \in (i + 1)..Len(df) : df[j].group_id # df[i].group_id}
      At(k) == CHOOSE i \in kept : Cardinality({j \in kept : j < i}) = k - 1
  IN  [k \in 1..Cardinality(kept) |-> df[At(k)]]

\* pd.concat(combined_frames, ignore_index=True)
RECURSIVE Concat(_)
Concat(frames) == IF frames = <<>> THEN <<>> ELSE Head(frames) \o Concat(Tail(frames))

\* fetch_scale_measurements with the API status of the payload not looked at
fetch_scale_measurements_any_status(resp) ==
  IF resp.status_code # 200 THEN Raised
  ELSE IF resp.measuregrps = None THEN Raised
  ELSE [ok |-> TRUE, df |-> SortByTimestamp(resp.measuregrps[1]),
        more |-> resp.more, offset |-> resp.offset]

\* fetch_scale_measurements from the response on: the page frame with its
\* attrs, or RuntimeError
fetch_scale_measurements(resp) ==
  IF resp.status_code # 200 THEN Raised
  ELSE IF resp.status # 0 THEN Raised
  ELSE IF resp.measuregrps = None THEN Raised
  ELSE [ok |-> TRUE, df |-> SortByTimestamp(resp.measuregrps[1]),
        more |-> resp.more, offset |-> resp.offset]

\* what fetch_scale_measurements_all returns once the loop is left
Combined(frames) == DropDuplicatesKeepLast(SortByTimestamp(Concat(frames)))

\* the caps a call is made with: none, or 0..MaxRequests pages
MaxPagesArgs == {None} \cup {Some(n) : n \in 0..MaxRequests}

InitPages == wcall = [fn |-> "none"] /\ rows = <<>> /\ mcall = [fn |-> "none"] /\ PagerIdle /\ TransformIdle /\ CsvIdle /\ TokenIdle

\* fetch_scale_measurements_all is called: the locals before the loop
FetchAllCalled ==
  /\ pc = "idle"
  /\ \E cap \in MaxPagesArgs : max_pages' = cap
  /\ combined_frames' = <<>>
  /\ current_offset' = None
  /\ pages' = 0
  /\ pc' = "calling"
  /\ UNCHANGED <<transform, csv, oauth, wcall, rows, mcall, full, calls, replies>>

\* the top of the loop: fetch_scale_measurements sends its request
RequestPage ==
  /\ pc = "calling"
  /\ Len(calls) < MaxRequests
  /\ calls' = Append(calls, RequestParams(current_offset))
  /\ pc' = "waiting"
  /\ UNCHANGED <<transform, csv, oauth, wcall, rows, mcall, max_pages, combined_frames, current_offset, pages,
                 full, replies>>

\* the loop body with the offset tested for truth, so that offset 0 ends it
ReceivePageTruthyOffset ==
  /\ pc = "waiting"
  /\ \E resp \in Responses :
       /\ replies' = Append(replies, resp)
       /\ \E page_df \in {fetch_scale_measurements(resp)} :
            IF ~page_df.ok
            THEN /\ pc' = "raised"
                 /\ UNCHANGED <<combined_frames, current_offset, pages, full>>
            ELSE /\ combined_frames' = Append(combined_frames, page_df.df)
                 /\ pages' = pages + 1
                 /\ IF max_pages # None /\ pages' >= max_pages[1]
                    THEN /\ pc' = "done"
                         /\ full' = Some(Combined(combined_frames'))
                         /\ UNCHANGED current_offset
                    ELSE IF page_df.more # 1 \/ page_df.offset \in {None, Some(0)}
                    THEN /\ pc' = "done"
                         /\ full' = Some(Combined(combined_frames'))
                         /\ UNCHANGED current_offset
                    ELSE /\ pc' = "calling"
                         /\ current_offset' = page_df.offset
                         /\ UNCHANGED full
  /\ UNCHANGED <<transform, csv, oauth, wcall, rows, mcall, max_pages, calls>>

\* the response arrives: fetch_scale_measurements returns or raises, and
\* the rest of the loop body runs, up to the next request or the return
ReceivePage ==
  /\ pc = "waiting"
  /\ \E resp \in Responses :
       /\ replies' = Append(replies, resp)
       /\ \E page_df \in {fetch_scale_measurements(resp)} :
            IF ~page_df.ok
            THEN /\ pc' = "raised"
                 /\ UNCHANGED <<combined_frames, current_offset, pages, full>>
            ELSE /\ combined_frames' = Append(combined_frames, page_df.df)
                 /\ pages' = pages + 1
                 /\ IF max_pages # None /\ pages' >= max_pages[1]
                    THEN /\ pc' = "done"
                         /\ full' = Some(Combined(combined_frames'))
                         /\ UNCHANGED current_offset
                    ELSE IF page_df.more # 1 \/ page_df.offset = None
                    THEN /\ pc' = "done"
                         /\ full' = Some(Combined(combined_frames'))
                         /\ UNCHANGED current_offset
                    ELSE /\ pc' = "calling"
                         /\ current_offset' = page_df.offset
                         /\ UNCHANGED full
  /\ UNCHANGED <<transform, csv, oauth, wcall, rows, mcall, max_pages, calls>>

NextPages == FetchAllCalled \/ RequestPage \/ ReceivePage

SpecPages == InitPages /\ [][NextPages]_vars

(***************************************************************************)
(* measure_client.py: _transform_measure_groups.  A measure group is       *)
(* [grpid, category, date, measures], a measure [type, value, unit]; a     *)
(* record is [timestamp, group_id, vals], timestamp in unix seconds and    *)
(* vals a cell per value field of MeasureRecord, NaN where it is None.     *)
(***************************************************************************)
\* the values of MeasureType
MeasureType == {1, 5, 8, 76, 77, 88}

\* the value fields of MeasureRecord, each with the MeasureType whose entry
\* of values it takes
RecordFields ==
  << <<"weight_kg", 1>>, <<"fat_free_mass_kg", 5>>, <<"fat_mass_kg", 8>>,
     <<"muscle_mass_kg", 76>>, <<"bone_mass_kg", 88>>, <<"hydration_kg", 77>> >>

FieldNames == {RecordFields[i][1] : i \in 1..Len(RecordFields)}

TypeOfField(f) == RecordFields[CHOOSE i \in 1..Len(RecordFields) : RecordFields[i][1] = f][2]

RECURSIVE Pow10(_)
Pow10(n) == IF n = 0 THEN 1 ELSE 10 * Pow10(n - 1)

\* _decode_measure with the sign of the unit dropped
_decode_measure_unsigned(value, unit) == Num(value * Pow10(Abs(unit)))

\* _decode_measure(value, unit): value * 10 ** unit
_decode_measure(value, unit) ==
  IF unit >= 0 THEN Num(value * Pow10(unit)) ELSE Rat(value, Pow10(0 - unit))

\* the values dict after the loop over the measures of a group: the cell
\* of each type, NaN for a type with no entry
RECURSIVE MeasureValues(_)
MeasureValues(measures) ==
  IF measures = <<>> THEN [t \in MeasureType |-> NaN]
  ELSE LET Last(m) ==
             LET Put(values) ==
                   IF m.type \notin MeasureType THEN values
                   ELSE [values EXCEPT ![m.type] = _decode_measure(m.value, m.unit)]
             IN  Bind(MeasureValues(SubSeq(measures, 1, Len(measures) - 1)), Put)
       IN  Bind(measures[Len(measures)], Last)

\* the MeasureRecord built for a group
RecordOfGroup(grp) ==
  LET Filled(values) ==
        [timestamp |-> grp.date, group_id |-> grp.grpid,
         vals |-> [f \in FieldNames |-> values[TypeOfField(f)]]]
  IN  Bind(MeasureValues(grp.measures), Filled)

IsRealMeasurement(grp) == grp.category = 1

\* records with the category of a group not looked at
RecordsOfAnyCategory(grps) == [i \in 1..Len(grps) |-> RecordOfGroup(grps[i])]

\* records after the loop over the groups: one for each group of category 1
Records(grps) ==
  LET Built(kept) == [i \in 1..Len(kept) |-> RecordOfGroup(kept[i])]
  IN  Bind(SelectSeq(grps, IsRealMeasurement), Built)

\* df.sort_values("timestamp"): the sort is not stable, so every ascending
\* arrangement of the rows is a possible outcome
SortValues(df) ==
  LET n == Len(df)
      orders == {p \in [1..n -> 1..n] :
                   /\ \A i, j \in 1..n : i # j => p[i] # p[j]
                   /\ \A i \in 1..(n - 1) : df[p[i]].timestamp <= df[p[i + 1]].timestamp}
  IN  {[i \in 1..n |-> df[p[i]]] : p \in orders}

\* _transform_measure_groups(groups): the frames it can return
_transform_measure_groups(grps) ==
  LET Sorted(records) == SortValues(records) IN Bind(Records(grps), Sorted)

\* the dates and categories of the groups of a body, and their measures
GroupDates == {1700000000, 1700000300}

GroupCategories == {1, 2}

MeasureInputs ==
  {[type |-> t, value |-> vu[1], unit |-> vu[2]] :
     t \in MeasureType \cup {11}, vu \in {<<80000, 0 - 3>>, <<4, 1>>}}

RECURSIVE CountMeasures(_)
CountMeasures(grps) ==
  IF grps = <<>> THEN 0 ELSE Len(Head(grps).measures) + CountMeasures(Tail(grps))

InitTransform ==
  wcall = [fn |-> "none"] /\ rows = <<>> /\ mcall = [fn |-> "none"] /\ PagerIdle /\ TransformIdle /\ CsvIdle /\ TokenIdle

\* the body gets one more group, without measures
AddGroup ==
  /\ tcall.fn = "none"
  /\ Len(groups) < MaxGroups
  /\ \E category \in GroupCategories, date \in GroupDates :
       groups' = Append(groups, [grpid |-> 100 + Len(groups), category |-> category,
                                 date |-> date, measures |-> <<>>])
  /\ UNCHANGED <<wcall, rows, mcall, pager, csv, oauth, tcall>>

\* the last group of the body gets one more measure
AddMeasure ==
  /\ tcall.fn = "none"
  /\ groups # <<>>
  /\ CountMeasures(groups) < MaxMeasures
  /\ \E m \in MeasureInputs :
       groups' = [groups EXCEPT ![Len(groups)].measures = Append(@, m)]
  /\ UNCHANGED <<wcall, rows, mcall, pager, csv, oauth, tcall>>

\* _transform_measure_groups called on the groups
TransformMeasureGroups ==
  /\ tcall.fn = "none"
  /\ \E grps \in {groups} : \E df \in _transform_measure_groups(grps) :
       tcall' = [fn |-> "_transform_measure_groups", ret |-> df]
  /\ UNCHANGED <<wcall, rows, mcall, pager, csv, oauth, groups>>

NextTransform == AddGroup \/ AddMeasure \/ TransformMeasureGroups

SpecTransform == InitTransform /\ [][NextTransform]_vars

(***************************************************************************)
(* cli.py: _read_withings_csv.  A column name is [text, padded]: the text  *)
(* without surrounding whitespace, and whether whitespace surrounds it in   *)
(* the file.  A table is the sequence of its column names plus whether     *)
(* every Date cell parses.                                                 *)
(***************************************************************************)
EXPECTED_CSV_COLS ==
  <<"Date", "Weight (kg)", "Fat mass (kg)", "Muscle mass (kg)", "Bone mass (kg)",
    "Hydration (kg)">>

_CSV_HEADER_NORMALIZATION ==
  << <<"Fat Mass (kg)", "Fat mass (kg)">>, <<"Muscle Mass (kg)", "Muscle mass (kg)">>,
     <<"Bone Mass (kg)", "Bone mass (kg)">>, <<"Weight (Kg)", "Weight (kg)">>,
     <<"Hydration (Kg)", "Hydration (kg)">> >>

ColumnName(text) == [text |-> text, padded |-> FALSE]

\* c.strip()
StripColumn(c) == [c EXCEPT !.padded = FALSE]

\* _CSV_HEADER_NORMALIZATION.get(original): None or Some(target)
NormalizationGet(original) ==
  IF original.padded \/ original.text \notin Range(Keys(_CSV_HEADER_NORMALIZATION)) THEN None
  ELSE LET i == CHOOSE j \in 1..Len(_CSV_HEADER_NORMALIZATION) :
                  _CSV_HEADER_NORMALIZATION[j][1] = original.text
       IN  Some(ColumnName(_CSV_HEADER_NORMALIZATION[i][2]))

\* rename_map, as the set of its keys: the stripped names the table knows
RenameMap(columns) ==
  {original \in Range([i \in 1..Len(columns) |-> StripColumn(columns[i])]) :
     NormalizationGet(original) # None}

\* df.rename(columns=rename_map): columns named exactly as a key are renamed
Rename(columns, rename_map) ==
  [i \in 1..Len(columns) |->
     IF columns[i] \in rename_map THEN NormalizationGet(columns[i])[1] ELSE columns[i]]

\* missing = [c for c in EXPECTED_CSV_COLS if c not in df.columns]
Missing(columns) ==
  SelectSeq(EXPECTED_CSV_COLS, LAMBDA c : ColumnName(c) \notin Range(columns))

\* _read_withings_csv that reports the first missing column only
_read_withings_csv_first_missing(columns, dates_parse) ==
  LET Checked(renamed) ==
        IF Missing(renamed) # <<>>
        THEN [ok |-> FALSE, error |-> "Missing required columns", missing |-> <<Head(Missing(renamed))>>]
        ELSE IF ~dates_parse
        THEN [ok |-> FALSE, error |-> "Some Date values could not be parsed.", missing |-> <<>>]
        ELSE [ok |-> TRUE, columns |-> renamed]
  IN  Bind(Rename(columns, RenameMap(columns)), Checked)

\* _read_withings_csv(path), of the table read_csv gives for the path
_read_withings_csv(columns, dates_parse) ==
  LET Validated(missing, renamed) ==
        IF missing # <<>>
        THEN [ok |-> FALSE, error |-> "Missing required columns", missing |-> missing]
        ELSE IF ~dates_parse
        THEN [ok |-> FALSE, error |-> "Some Date values could not be parsed.", missing |-> <<>>]
        ELSE [ok |-> TRUE, columns |-> renamed]
      Checked(renamed) ==
        LET V(missing) == Validated(missing, renamed) IN Bind(Missing(renamed), V)
  IN  Bind(Rename(columns, RenameMap(columns)), Checked)

\* how an expected column can appear in the header row of a file
Forms == {"canonical", "variant", "padded", "absent"}

\* the accepted variant spelling of an expected column, None without one
VariantOf(c) ==
  IF c \notin Range(Labels(_CSV_HEADER_NORMALIZATION)) THEN None
  ELSE LET i == CHOOSE j \in 1..Len(_CSV_HEADER_NORMALIZATION) :
                  _CSV_HEADER_NORMALIZATION[j][2] = c
       IN  Some(_CSV_HEADER_NORMALIZATION[i][1])

\* the columns of a file whose header row has the given forms
RECURSIVE ColumnsOfHeader(_)
ColumnsOfHeader(forms) ==
  IF forms = <<>> THEN <<>>
  ELSE LET c == EXPECTED_CSV_COLS[Len(forms)]
           form == forms[Len(forms)]
           rest == ColumnsOfHeader(SubSeq(forms, 1, Len(forms) - 1))
       IN  IF form = "canonical" THEN Append(rest, ColumnName(c))
           ELSE IF form = "variant" THEN Append(rest, ColumnName(VariantOf(c)[1]))
           ELSE IF form = "padded" THEN Append(rest, [text |-> c, padded |-> TRUE])
           ELSE rest

InitCsv ==
  wcall = [fn |-> "none"] /\ rows = <<>> /\ mcall = [fn |-> "none"] /\ PagerIdle /\ TransformIdle /\ CsvIdle /\ TokenIdle

\* the header row of the file gets (or lacks) its next column
WriteHeader ==
  /\ ccall.fn = "none"
  /\ Len(header) < Len(EXPECTED_CSV_COLS)
  /\ \E form \in Forms :
       /\ form = "variant" => VariantOf(EXPECTED_CSV_COLS[Len(header) + 1]) # None
       /\ header' = Append(header, form)
  /\ UNCHANGED <<wcall, rows, mcall, pager, transform, oauth, ccall>>

\* _read_withings_csv called on the file
ReadWithingsCsv ==
  /\ ccall.fn = "none"
  /\ Len(header) = Len(EXPECTED_CSV_COLS)
  /\ \E columns \in {ColumnsOfHeader(header)}, dates_parse \in BOOLEAN :
       \E ret \in {_read_withings_csv(columns, dates_parse)} :
         ccall' = [fn |-> "_read_withings_csv", columns |-> columns,
                   dates_parse |-> dates_parse, ret |-> ret]
  /\ UNCHANGED <<wcall, rows, mcall, pager, transform, oauth, header>>

NextCsv == WriteHeader \/ ReadWithingsCsv

SpecCsv == InitCsv /\ [][NextCsv]_vars

(***************************************************************************)
(* oauth_client.py: the stored tokens and get_valid_access_token.  The     *)
(* token file holds a JSON object, here a function from its keys to their  *)
(* values; a userid is None (null) or Some(number); times are seconds.     *)
(***************************************************************************)
\* OAuthTokens.from_dict(data), called at time now
from_dict(data, now) ==
  [access_token |-> IF "access_token" \in DOMAIN data THEN data.access_token ELSE "",
   refresh_token |-> IF "refresh_token" \in DOMAIN data THEN data.refresh_token ELSE "",
   expires_at |-> IF "expires_at" \in DOMAIN data THEN data.expires_at ELSE now,
   scope |-> IF "scope" \in DOMAIN data THEN data.scope ELSE "",
   userid |-> IF "userid" \in DOMAIN data THEN data.userid ELSE None]

\* OAuthTokens.to_dict()
to_dict(tokens) ==
  [access_token |-> tokens.access_token, refresh_token |-> tokens.refresh_token,
   expires_at |-> tokens.expires_at, scope |-> tokens.scope, userid |-> tokens.userid]

\* expired without the safety window
expired_at_expiry(tokens, now) == now >= tokens.expires_at

\* OAuthTokens.expired, read at time now
expired(tokens, now) == now >= tokens.expires_at - 30

\* the token file once get_token_path has run: a legacy file is copied to
\* the config dir when there is no token file there
get_token_path(file, legacy) == IF file # None THEN file ELSE legacy

\* _load_tokens() at time now: None or Some(tokens)
_load_tokens(file, now) == IF file = None THEN None ELSE Some(from_dict(file[1], now))

\* the payload of the refresh request
RefreshPayload(tokens) ==
  [action |-> "requesttoken", grant_type |-> "refresh_token",
   refresh_token |-> tokens.refresh_token]

\* refresh_access_token that saves what it has before it reads the response
refresh_access_token_saving_first(tokens, resp, now) ==
  IF resp.status_code # 200 \/ resp.status # 0
  THEN [ok |-> FALSE, error |-> "RuntimeError", saved |-> Some(to_dict([tokens EXCEPT !.access_token = ""]))]
  ELSE IF "access_token" \notin DOMAIN resp.body
  THEN [ok |-> FALSE, error |-> "KeyError", saved |-> None]
  ELSE LET New(new_tokens) == [ok |-> TRUE, tokens |-> new_tokens, saved |-> Some(to_dict(new_tokens))]
       IN  Bind([access_token |-> resp.body.access_token,
                 refresh_token |-> IF "refresh_token" \in DOMAIN resp.body
                                   THEN resp.body.refresh_token ELSE tokens.refresh_token,
                 expires_at |-> now + (IF "expires_in" \in DOMAIN resp.body
                                       THEN resp.body.expires_in ELSE 0),
                 scope |-> IF "scope" \in DOMAIN resp.body THEN resp.body.scope ELSE tokens.scope,
                 userid |-> IF "userid" \in DOMAIN resp.body
                            THEN Some(resp.body.userid) ELSE tokens.userid], New)

\* refresh_access_token(tokens) from the response on, the response read at
\* time now: the new tokens and what was saved, or the error raised
refresh_access_token(tokens, resp, now) ==
  IF resp.status_code # 200 THEN [ok |-> FALSE, error |-> "RuntimeError", saved |-> None]
  ELSE IF resp.status # 0 THEN [ok |-> FALSE, error |-> "RuntimeError", saved |-> None]
  ELSE IF "access_token" \notin DOMAIN resp.body
  THEN [ok |-> FALSE, error |-> "KeyError", saved |-> None]
  ELSE LET New(new_tokens) == [ok |-> TRUE, tokens |-> new_tokens, saved |-> Some(to_dict(new_tokens))]
       IN  Bind([access_token |-> resp.body.access_token,
                 refresh_token |-> IF "refresh_token" \in DOMAIN resp.body
                                   THEN resp.body.refresh_token ELSE tokens.refresh_token,
                 expires_at |-> now + (IF "expires_in" \in DOMAIN resp.body
                                       THEN resp.body.expires_in ELSE 0),
                 scope |-> IF "scope" \in DOMAIN resp.body THEN resp.body.scope ELSE tokens.scope,
                 userid |-> IF "userid" \in DOMAIN resp.body
                            THEN Some(resp.body.userid) ELSE tokens.userid], New)

\* get_valid_access_token() on the token file, called at time now, with the
\* answer the token endpoint gives after delay seconds if it is asked: the
\* token returned or the error raised, the token file afterwards and the
\* payloads posted
get_valid_access_token(file, now, resp, delay) ==
  LET Loaded(tokens) ==
        LET Refreshed(r) ==
              [ok |-> r.ok, access_token |-> IF r.ok THEN r.tokens.access_token ELSE "",
               error |-> IF r.ok THEN "" ELSE r.error,
               file |-> IF r.saved # None THEN r.saved ELSE file,
               posted |-> <<RefreshPayload(tokens[1])>>]
        IN  IF tokens = None
            THEN [ok |-> FALSE, access_token |-> "",
                  error |-> "No stored tokens; run authorization flow first.",
                  file |-> file, posted |-> <<>>]
            ELSE IF expired(tokens[1], now)
            THEN Bind(refresh_access_token(tokens[1], resp, now + delay), Refreshed)
            ELSE [ok |-> TRUE, access_token |-> tokens[1].access_token, error |-> "",
                  file |-> file, posted |-> <<>>]
  IN  Bind(_load_tokens(file, now), Loaded)

\* the answers of the token endpoint: an HTTP error, an API error status, a
\* full body, bodies that leave fields out
TokenResponses ==
  {[status_code |-> 500, status |-> 0, body |-> <<>>],
   [status_code |-> 200, status |-> 601, body |-> <<>>],
   [status_code |-> 200, status |-> 0,
    body |-> [access_token |-> "a2", refresh_token |-> "r2", expires_in |-> 31,
              scope |-> "s2", userid |-> 7]],
   [status_code |-> 200, status |-> 0, body |-> [access_token |-> "a3", expires_in |-> 32]],
   [status_code |-> 200, status |-> 0, body |-> [access_token |-> "a4"]],
   [status_code |-> 200, status |-> 0, body |-> [refresh_token |-> "r2", expires_in |-> 31]]}

\* the token files a run starts from: none, files the client wrote, and a
\* file edited by hand that lacks expires_at, scope and userid
StoredFiles ==
  {Some([access_token |-> "a1", refresh_token |-> "r1", expires_at |-> x, scope |-> "s1",
         userid |-> Some(5)]) : x \in {31, 32}}
    \cup {Some([access_token |-> "a1", refresh_token |-> "r1"])}

\* a token file left in the working directory by an earlier version
LegacyFile ==
  Some([access_token |-> "a0", refresh_token |-> "r0", expires_at |-> 31, scope |-> "s0",
        userid |-> Some(5)])

InitTokens ==
  /\ wcall = [fn |-> "none"] /\ rows = <<>> /\ mcall = [fn |-> "none"]
  /\ PagerIdle /\ TransformIdle /\ CsvIdle
  /\ token_file \in {None} \cup StoredFiles
  /\ legacy_file \in IF token_file = None THEN {None, LegacyFile} ELSE {None}
  /\ clock = 0
  /\ posts = <<>>
  /\ acalls = <<>>

\* a second passes
Tick ==
  /\ clock < MaxTime
  /\ clock' = clock + 1
  /\ UNCHANGED <<wcall, rows, mcall, pager, transform, csv, token_file, legacy_file, posts, acalls>>

\* get_valid_access_token is called
GetValidAccessToken ==
  /\ Len(acalls) < MaxCalls
  /\ \E resp \in TokenResponses, delay \in {0, 1} :
       \E file \in {get_token_path(token_file, legacy_file)} :
         \E out \in {get_valid_access_token(file, clock, resp, delay)} :
           \* a call that posts nothing has no answer and no delay to draw
           /\ out.posted = <<>> => (delay = 0 /\ resp.status_code = 500)
           /\ clock + delay <= MaxTime
           /\ token_file' = out.file
           /\ posts' = posts \o out.posted
           /\ clock' = clock + delay
           /\ acalls' = Append(acalls,
                 [stored |-> file, now |-> clock,
                  resp |-> IF out.posted = <<>> THEN None ELSE Some(resp),
                  delay |-> delay, posted |-> out.posted, ok |-> out.ok,
                  access_token |-> out.access_token, error |-> out.error,
                  file |-> out.file])
  /\ UNCHANGED <<wcall, rows, mcall, pager, transform, csv, legacy_file>>

NextTokens == Tick \/ GetValidAccessToken

SpecTokens == InitTokens /\ [][NextTokens]_vars

(***************************************************************************)
(* Claims about the week resolver                                          *)
(***************************************************************************)
Week == 7 * 86400

\* the (year, week) pair exists in the ISO calendar: 4 January is always in
\* week 1, and the day 7 * (week - 1) days later has that pair
ExistsInIsoCalendar(year, week) ==
  /\ week >= 1
  /\ IsoCalendar(Ymd2Ord(year, 1, 4) + 7 * (week - 1)).year = year
  /\ IsoCalendar(Ymd2Ord(year, 1, 4) + 7 * (week - 1)).week = week

Parsed(token, now) == parse_week_str(token, now)

NamesMissingWeek(token, now) ==
  Parsed(token, now).ok /\ ~ExistsInIsoCalendar(Parsed(token, now).year, Parsed(token, now).week)

\* C2: resolve_week_range raises whenever its start token or its end token
\* parses but names a (year, week) pair that is not in the ISO calendar.
C2_MissingWeekIsRejected ==
  (/\ wcall.fn = "resolve_week_range"
   /\ \/ NamesMissingWeek(wcall.start_week, wcall.now)
      \/ wcall.end_week # None /\ NamesMissingWeek(wcall.end_week[1], wcall.now))
    => ~wcall.ret.ok

\* C3: every WeekRange returned has end - start a whole number of 7-day
\* periods, and end is the Monday 00:00 following the ISO week that
\* end_week_code names: end = week_start(end_week_code) + 7 days.
C3_EndFollowsEndWeekCode ==
  (wcall.fn = "resolve_week_range" /\ wcall.ret.ok) =>
    LET code == Parsed(wcall.ret.end_week_code, wcall.now)
        ws == week_start(code.year, code.week, wcall.tz)
    IN  /\ SecondsBetween(wcall.ret.end, wcall.ret.start) % Week = 0
        /\ code.ok /\ ws.ok
        /\ SecondsBetween(wcall.ret.end, ws.dt) = Week

\* C4: without an end token the range ends at Monday 00:00 of the ISO week
\* containing reference_now, and end_week_code is the ISO week just before
\* it; from week 1 that is week 52 or 53 of the previous ISO year.
C4_DefaultEndIsCurrentMonday ==
  (wcall.fn = "resolve_week_range" /\ wcall.end_week = None /\ wcall.ret.ok) =>
    LET end == wcall.ret.end
        code == Parsed(wcall.ret.end_week_code, wcall.now)
        prev == FromIsoCalendar(code.year, code.week)
    IN  /\ end.ord <= wcall.now /\ wcall.now <= end.ord + 6
        /\ Weekday(end.ord) = 0 /\ end.sec = 0
        /\ end.aware = wcall.tz.aware /\ end.off = wcall.tz.off
        /\ code.ok /\ prev.ok /\ prev.ord = end.ord - 7
        /\ wcall.ret.end_week_code = WeekCode(code.year, code.week)
        /\ wcall.now = Ymd2Ord(2021, 1, 4) =>
             wcall.ret.end_week_code = <<"2", "0", "2", "0", "W", "5", "3">>
        /\ wcall.now = Ymd2Ord(2024, 12, 30) =>
             wcall.ret.end_week_code = <<"2", "0", "2", "4", "W", "5", "2">>

C4_Witness ==
  /\ wcall.fn = "resolve_week_range" /\ wcall.end_week = None /\ wcall.ret.ok
  /\ wcall.now = Ymd2Ord(2021, 1, 4)
  /\ wcall.ret.end.ord = Ymd2Ord(2021, 1, 4)
  /\ wcall.ret.end_week_code = <<"2", "0", "2", "0", "W", "5", "3">>

\* C5: with an end token the range has start = week_start(start
\* identifier), end = week_following_start(end identifier) and the codes
\* are the YYYYWww forms of the parsed identifiers; 2025W40..2025W42 ends
\* on the Monday of 2025W43 (20 October 2025) with end_week_code 2025W42.
C5_ExplicitEnd ==
  (wcall.fn = "resolve_week_range" /\ wcall.end_week # None /\ wcall.ret.ok) =>
    LET s == Parsed(wcall.start_week, wcall.now)
        e == Parsed(wcall.end_week[1], wcall.now)
    IN  /\ s.ok /\ e.ok
        /\ wcall.ret.start = week_start(s.year, s.week, wcall.tz).dt
        /\ wcall.ret.end = week_following_start(e.year, e.week, wcall.tz).dt
        /\ wcall.ret.start_week_code = WeekCode(s.year, s.week)
        /\ wcall.ret.end_week_code = WeekCode(e.year, e.week)
        /\ Len(wcall.ret.end_week_code) = 7
        /\ (/\ wcall.start_week = <<"2", "0", "2", "5", "W", "4", "0">>
            /\ wcall.end_week = Some(<<"2", "0", "2", "5", "W", "4", "2">>)) =>
             /\ wcall.ret.start.ord = Ymd2Ord(2025, 9, 29)
             /\ wcall.ret.end.ord = Ymd2Ord(2025, 10, 20)
             /\ wcall.ret.start_week_code = <<"2", "0", "2", "5", "W", "4", "0">>
             /\ wcall.ret.end_week_code = <<"2", "0", "2", "5", "W", "4", "2">>
        /\ wcall.end_week = Some(<<"5">>) =>
             SubSeq(wcall.ret.end_week_code, 5, 7) = <<"W", "0", "5">>

C5_Witness ==
  /\ wcall.fn = "resolve_week_range" /\ wcall.ret.ok
  /\ wcall.start_week = <<"2", "0", "2", "5", "W", "4", "0">>
  /\ wcall.end_week = Some(<<"2", "0", "2", "5", "W", "4", "2">>)
  /\ wcall.ret.end.ord = Ymd2Ord(2025, 10, 20)

\* C6: parse_week_str maps a canonical token YYYYWww to (YYYY, ww) whatever
\* reference_now is, and a bare digit token to (ISO year of reference_now,
\* week number); on 30 December 2024 that ISO year is 2025, on 1 January
\* 2021 it is 2020.
CanonicalForms == {<<WeekCode(y, w), y, w>> : y \in Years, w \in 1..53}

BareForms == {<<IntToStr(w), w>> : w \in 1..53} \cup {<<ZFill2(IntToStr(w)), w>> : w \in 1..9}

C6_ParseResult ==
  wcall.fn = "parse_week_str" =>
    /\ \A c \in CanonicalForms :
         wcall.value = c[1] =>
           wcall.ret.ok /\ wcall.ret.year = c[2] /\ wcall.ret.week = c[3]
    /\ \A b \in BareForms :
         wcall.value = b[1] =>
           /\ wcall.ret.ok /\ wcall.ret.week = b[2]
           /\ wcall.ret.year = IsoCalendar(wcall.now).year
           /\ wcall.now = Ymd2Ord(2024, 12, 30) => wcall.ret.year = 2025
           /\ wcall.now = Ymd2Ord(2021, 1, 1) => wcall.ret.year = 2020
           /\ wcall.now = Ymd2Ord(2025, 10, 26) => wcall.ret.year = 2025

C6_Witness ==
  /\ wcall.fn = "parse_week_str"
  /\ wcall.value = <<"0", "5">> /\ wcall.now = Ymd2Ord(2024, 12, 30)
  /\ wcall.ret.ok /\ wcall.ret.year = 2025 /\ wcall.ret.week = 5

\* the token is an integer literal: optional sign, then digits
IsIntLiteral(s) ==
  LET t == Strip(s)
  IN  \/ IsDigit(t)
      \/ Len(t) >= 2 /\ t[1] \in {"+", "-"} /\ IsDigit(Tail(t))

\* the week number the token carries, when it carries one
CarriedWeek(v) ==
  IF IsDigit(v) THEN DigitsVal(v) ELSE PyInt(SplitW(v)[2]).v

\* C7: parse_week_str raises for the empty token, for a token that is
\* neither all digits nor split by its first W into an integer year and an
\* integer week, and for a token whose week number is outside 1..53; it
\* returns only week numbers within 1..53.
C7_ParseRejects ==
  wcall.fn = "parse_week_str" =>
    LET v == Strip(wcall.value)
        shaped == \/ IsDigit(v)
                  \/ HasW(v) /\ IsIntLiteral(SplitW(v)[1]) /\ IsIntLiteral(SplitW(v)[2])
    IN  /\ v = <<>> => ~wcall.ret.ok
        /\ ~shaped => ~wcall.ret.ok
        /\ (shaped /\ CarriedWeek(v) \notin 1..53) => ~wcall.ret.ok
        /\ wcall.ret.ok => shaped /\ wcall.ret.week \in 1..53
        /\ wcall.value \in { <<>>, <<"A", "B">>,
                              <<"2", "0", "2", "5", "X", "4", "3">>,
                              <<"2", "0", "2", "5", "W", "9", "9">>,
                              WeekCode(2025, 0), WeekCode(2025, 54) } => ~wcall.ret.ok

C7_Witness ==
  /\ wcall.fn = "parse_week_str"
  /\ wcall.value = <<"2", "0", "2", "5", "W", "9", "9">>
  /\ ~wcall.ret.ok

(***************************************************************************)
(* Claims about the measure pipeline                                       *)
(***************************************************************************)
\* the UTC dates of the samples that fall in the ISO week of a label
DaysOfWeek(label) ==
  {d \in {rows[i].at[1] : i \in 1..Len(rows)} : WeekNumber(d) = label}

\* the average of a metric over the samples of one day
DayAverage(d, c) ==
  LET OnDay(r) == r.at[1] = d
      samples == SelectSeq(rows, OnDay)
  IN  Mean([i \in 1..Len(samples) |-> samples[i].vals[c]])

\* the average over the days of a week of the day averages of a metric
MeanOfDayAverages(label, c) ==
  LET days == SortedInts(DaysOfWeek(label))
  IN  Mean([i \in 1..Len(days) |-> DayAverage(days[i], c)])

\* C8: every value of the weekly table is the mean of the daily averages of
\* the days of that ISO week, each day counting once however many samples
\* it has: two samples of 81 on one day and one of 70 on the next give 75.5
C8_WeeklyIsMeanOfDailyMeans ==
  (mcall.fn = "pivot_scale_measurements_weekly" /\ mcall.ret.ok) =>
    \A k \in 1..Len(mcall.ret.table) : \A c \in ValueCols :
      mcall.ret.table[k].vals[c] = MeanOfDayAverages(mcall.ret.table[k].week, c)

\* two samples of 81 on Monday and one of 70 on Tuesday give 151/2
C8_Witness ==
  /\ mcall.fn = "pivot_scale_measurements_weekly"
  /\ Len(rows) = 3
  /\ rows[1].at[1] = Ymd2Ord(2024, 12, 30) /\ rows[1].vals["weight_kg"] = Num(81)
  /\ rows[2].at[1] = Ymd2Ord(2024, 12, 30) /\ rows[2].vals["weight_kg"] = Num(81)
  /\ rows[3].at[1] = Ymd2Ord(2024, 12, 31) /\ rows[3].vals["weight_kg"] = Num(70)
  /\ mcall.ret.ok
  /\ Len(mcall.ret.table) = 1
  /\ mcall.ret.table[1].week = W2025_01
  /\ mcall.ret.table[1].vals["weight_kg"] = Rat(151, 2)

\* the samples of the source of a fetch_measures call that lie in the
\* resolved range, start included and end excluded
SamplesInRange ==
  LET week_range == resolve_week_range(mcall.week, mcall.end_week, mcall.now, mcall.local_tz)
      Inside(r) == InWindow(r, week_range.start, week_range.end)
  IN  SelectSeq(Stamped(rows, mcall.source_tz), Inside)

\* C9: on the file path and on the API path alike, the samples that reach
\* the aggregation are exactly those of the source with
\* range.start <= timestamp < range.end
C9_OnlySamplesInRangeAggregated ==
  mcall.fn = "fetch_measures" =>
    /\ "raw_df" \in DOMAIN mcall.ret
    /\ mcall.ret.raw_df = SamplesInRange

(***************************************************************************)
(* Claims about the pagination driver                                      *)
(***************************************************************************)
\* a first page with more = 1 and offset = 123, then a second with more = 0
TwoPages ==
  << [status_code |-> 200, status |-> 0, measuregrps |-> Some(<<Grp1>>), more |-> 1,
      offset |-> Some(123)],
     [status_code |-> 200, status |-> 0, measuregrps |-> Some(<<Grp2>>), more |-> 0,
      offset |-> None] >>

\* C10: the first request carries no offset; a request is sent only when
\* every earlier one has been answered, and it carries exactly the offset
\* of the response before it; the two pages (more = 1, offset = 123) and
\* (more = 0) make exactly two requests and return both pages' groups
C10_PagesFetchedInSequence ==
  /\ calls # <<>> => "offset" \notin DOMAIN calls[1]
  /\ Len(replies) <= Len(calls) /\ Len(calls) <= Len(replies) + 1
  /\ \A i \in 2..Len(calls) :
       /\ replies[i - 1].offset # None
       /\ "offset" \in DOMAIN calls[i]
       /\ calls[i].offset = replies[i - 1].offset[1]
  /\ (pc = "done" /\ replies = TwoPages) =>
       /\ Len(calls) = 2
       /\ Len(full[1]) = 2
       /\ Range(full[1]) = {Grp1, Grp2}

\* the two pages were fetched with the second request at offset 123
C10_Witness ==
  /\ pc = "done"
  /\ replies = TwoPages
  /\ calls = <<[action |-> "getmeas"], [action |-> "getmeas", offset |-> 123]>>
  /\ full = Some(<<Grp1, Grp2>>)

\* a response fetch_scale_measurements raises RuntimeError for: an HTTP
\* status other than 200, an API status other than 0, or a measuregrps
\* that is not a list
IsErrorResponse(resp) ==
  resp.status_code # 200 \/ resp.status # 0 \/ resp.measuregrps = None

\* C11: a page request answered with an error ends the whole fetch in error
\* at that page: it is the last request made, it is not sent again, and
\* nothing is returned, whatever the earlier pages held
C11_ErrorPageAbortsFetch ==
  \A i \in 1..Len(replies) :
    IsErrorResponse(replies[i]) =>
      /\ i = Len(replies)
      /\ Len(calls) = i
      /\ pc = "raised"
      /\ full = None

\* a first page with a group and more to come, then an API error status
C11_Witness ==
  /\ Len(replies) = 2
  /\ replies[1].measuregrps = Some(<<Grp1>>) /\ ~IsErrorResponse(replies[1])
  /\ replies[2].status = 401
  /\ combined_frames = << <<Grp1>> >>
  /\ pc = "raised"
  /\ full = None

\* C12: an empty sample set is pivoted without error into a table of no
\* rows whose columns are Week number, Weight (kg), Muscle mass (kg),
\* Hydration (kg), Fat mass (kg), Bone mass (kg) in that order, the columns
\* a non-empty sample set gives as well
C12_EmptyInputKeepsSchema ==
  mcall.fn = "pivot_scale_measurements_weekly" =>
    /\ rows = <<>> => mcall.ret.ok /\ mcall.ret.table = <<>>
    /\ mcall.ret.ok =>
         mcall.ret.columns = <<"Week number", "Weight (kg)", "Muscle mass (kg)",
                               "Hydration (kg)", "Fat mass (kg)", "Bone mass (kg)">>

\* the pivot was called on no samples and returned the empty table
C12_Witness ==
  /\ mcall.fn = "pivot_scale_measurements_weekly"
  /\ rows = <<>>
  /\ mcall.ret.ok
  /\ mcall.ret.table = <<>>
  /\ Len(mcall.ret.columns) = 6

\* the labels of the ISO weeks that hold a sample
WeeksWithSamples == {WeekNumber(rows[i].at[1]) : i \in 1..Len(rows)}

\* C13: the weekly table has exactly one row for each ISO week that holds
\* a sample and none for any other week, in strictly ascending order of
\* the week code
C13_OneRowPerWeekAscending ==
  (mcall.fn = "pivot_scale_measurements_weekly" /\ mcall.ret.ok) =>
    /\ {mcall.ret.table[k].week : k \in 1..Len(mcall.ret.table)} = WeeksWithSamples
    /\ Len(mcall.ret.table) = Cardinality(WeeksWithSamples)
    /\ \A k \in 1..(Len(mcall.ret.table) - 1) :
         StrLess(mcall.ret.table[k].week, mcall.ret.table[k + 1].week)

\* samples in 2024W52, 2025W01 (two days) and 2025W02 gave three rows
C13_Witness ==
  /\ mcall.fn = "pivot_scale_measurements_weekly"
  /\ mcall.ret.ok
  /\ Len(rows) = 3
  /\ rows[1].at[1] = Ymd2Ord(2024, 12, 29)
  /\ rows[3].at[1] = Ymd2Ord(2025, 1, 6)
  /\ Len(mcall.ret.table) = 3
  /\ mcall.ret.table[1].week = WeekCode(2024, 52)
  /\ mcall.ret.table[2].week = WeekCode(2025, 1)
  /\ mcall.ret.table[3].week = WeekCode(2025, 2)

(***************************************************************************)
(* Claims about the measurement normalizer                                 *)
(***************************************************************************)
\* the group a row of the returned frame was built from
GroupOfRow(r) == groups[CHOOSE i \in 1..Len(groups) : groups[i].grpid = r.group_id]

\* the cell is the number value * 10^unit
IsDecoded(cell, value, unit) ==
  /\ ~cell.nan
  /\ IF unit >= 0 THEN cell = Num(value * Pow10(unit))
     ELSE cell = Rat(value, Pow10(0 - unit))

\* C14: in every record built, the field of each recognized type code is
\* mantissa * 10^exponent of the (last) triple of that type in the group,
\* so (80000, -3) gives 80.0, and a field whose type has no triple in the
\* group is left unset, not zero
C14_SlotsDecodedOrUnset ==
  tcall.fn = "_transform_measure_groups" =>
    \A k \in 1..Len(tcall.ret) : \A f \in FieldNames :
      LET measures == GroupOfRow(tcall.ret[k]).measures
          triples == {j \in 1..Len(measures) : measures[j].type = TypeOfField(f)}
          last == CHOOSE j \in triples : \A i \in triples : i <= j
      IN  /\ triples = {} => tcall.ret[k].vals[f].nan
          /\ triples # {} =>
               /\ IsDecoded(tcall.ret[k].vals[f], measures[last].value, measures[last].unit)
               /\ (measures[last].value = 80000 /\ measures[last].unit = 0 - 3) =>
                    tcall.ret[k].vals[f] = Num(80)

\* a group with the one triple (weight, 80000, -3) gave weight 80.0 and
\* left the fat mass unset
C14_Witness ==
  /\ tcall.fn = "_transform_measure_groups"
  /\ Len(groups) = 1
  /\ groups[1].category = 1
  /\ groups[1].measures = <<[type |-> 1, value |-> 80000, unit |-> 0 - 3]>>
  /\ Len(tcall.ret) = 1
  /\ tcall.ret[1].vals["weight_kg"] = Num(80)
  /\ tcall.ret[1].vals["fat_mass_kg"] = NaN

(***************************************************************************)
(* Claims about the file reader                                            *)
(***************************************************************************)
\* the spellings under which an expected column is accepted
AcceptedSpellings(c) == {c} \cup {_CSV_HEADER_NORMALIZATION[j][1] :
                                    j \in {k \in 1..Len(_CSV_HEADER_NORMALIZATION) :
                                             _CSV_HEADER_NORMALIZATION[k][2] = c}}

\* the expected column is in the file, under one of its accepted spellings
IsPresent(columns, c) ==
  \E i \in 1..Len(columns) : ~columns[i].padded /\ columns[i].text \in AcceptedSpellings(c)

\* the expected columns the file lacks, in the order of EXPECTED_CSV_COLS
AbsentColumns(columns) == SelectSeq(EXPECTED_CSV_COLS, LAMBDA c : ~IsPresent(columns, c))

\* C15: _read_withings_csv applies the header alias table before the
\* required-columns check: a file that has every expected column under its
\* canonical name or an accepted capitalization variant (and dates that
\* parse) is accepted, and a file that lacks expected columns after
\* normalization is refused with an error naming every one of them.
C15_VariantsAcceptedAllMissingNamed ==
  ccall.fn = "_read_withings_csv" =>
    /\ (AbsentColumns(ccall.columns) = <<>> /\ ccall.dates_parse) => ccall.ret.ok
    /\ AbsentColumns(ccall.columns) # <<>> =>
         /\ ~ccall.ret.ok
         /\ ccall.ret.error = "Missing required columns"
         /\ ccall.ret.missing = AbsentColumns(ccall.columns)

\* a file with a capitalization variant was accepted, or a file lacking two
\* columns besides a variant was refused
C15_Witness ==
  /\ ccall.fn = "_read_withings_csv"
  /\ \/ /\ header = <<"canonical", "variant", "variant", "canonical", "variant", "canonical">>
        /\ ccall.ret.ok
     \/ /\ header = <<"canonical", "absent", "variant", "absent", "canonical", "canonical">>
        /\ ~ccall.ret.ok
        /\ ccall.ret.missing = <<"Weight (kg)", "Muscle mass (kg)">>

(***************************************************************************)
(* Claims about the result of the pagination                               *)
(***************************************************************************)
\* the measure groups of the pages, in the order the pages arrived
RECURSIVE InPageOrder(_)
InPageOrder(resps) ==
  IF resps = <<>> THEN <<>>
  ELSE InPageOrder(SubSeq(resps, 1, Len(resps) - 1)) \o resps[Len(resps)].measuregrps[1]

\* the entry of a batch id that was encountered last
LastEncountered(entries, id) ==
  entries[CHOOSE i \in 1..Len(entries) :
            /\ entries[i].group_id = id
            /\ \A j \in (i + 1)..Len(entries) : entries[j].group_id # id]

GoesOn(i) == i < Len(replies) \/ pc \in {"calling", "waiting"}

\* C17: after each page the driver requests another page if and only if the
\* page reported more data, the response had an offset (0 included) and the
\* page-count cap is absent or not yet reached; so a finished fetch made at
\* least one request, a cap of N >= 1 means at most N requests, and the
\* fetch ends at the first page without more data or without offset.
C17_ContinuesIffMoreOffsetAndBelowCap ==
  /\ \A i \in 1..Len(replies) :
       ~IsErrorResponse(replies[i]) =>
         (GoesOn(i) <=> /\ replies[i].more = 1
                        /\ replies[i].offset # None
                        /\ (max_pages = None \/ i < max_pages[1]))
  /\ pc = "done" => Len(calls) >= 1
  /\ (max_pages # None /\ max_pages[1] >= 1) => Len(calls) <= max_pages[1]
  /\ \A i \in 1..Len(replies) :
       (replies[i].more # 1 \/ replies[i].offset = None) => (i = Len(replies) /\ pc # "calling")

\* with a cap of 2, a first page with more data and offset 0 was followed by
\* a second request, and the second page, again with more data, ended the
\* fetch
C17_Witness ==
  /\ pc = "done"
  /\ max_pages = Some(2)
  /\ Len(calls) = 2
  /\ Len(replies) = 2
  /\ replies[1].more = 1 /\ replies[1].offset = Some(0)
  /\ replies[2].more = 1 /\ replies[2].offset # None

(***************************************************************************)
(* Claims about absent values in the aggregation                           *)
(***************************************************************************)
\* some sample of the ISO week of a label has a value for the metric
HasValueInWeek(label, c) ==
  \E i \in 1..Len(rows) : WeekNumber(rows[i].at[1]) = label /\ ~rows[i].vals[c].nan

\* C18: both aggregation stages leave absent values out of the mean, and a
\* week in which no sample has a value for a metric gets an absent value for
\* it, also when no sample of the whole input has one; the aggregation does
\* not fail.
C18_AbsentValuesSkippedNeverFatal ==
  mcall.fn = "pivot_scale_measurements_weekly" =>
    /\ mcall.ret.ok
    /\ \A k \in 1..Len(mcall.ret.table) : \A c \in ValueCols :
         /\ mcall.ret.table[k].vals[c] = MeanOfDayAverages(mcall.ret.table[k].week, c)
         /\ mcall.ret.table[k].vals[c].nan <=> ~HasValueInWeek(mcall.ret.table[k].week, c)

(***************************************************************************)
(* Claims about the week labels                                            *)
(***************************************************************************)
\* the ISO (year, week) pair of a date: the year its week's Thursday lies
\* in, and the number of that Thursday among the Thursdays of the year
IsoPair(date) ==
  LET thursday == date - Weekday(date) + 3
  IN  [year |-> OrdYear(thursday),
       week |-> ((thursday - Ymd2Ord(OrdYear(thursday), 1, 1)) \div 7) + 1]

\* YYYYWww of a pair: four digits of the year, W, two digits of the week
LabelOfPair(p) ==
  <<DigitChars[(p.year \div 1000) + 1], DigitChars[((p.year \div 100) % 10) + 1],
    DigitChars[((p.year \div 10) % 10) + 1], DigitChars[(p.year % 10) + 1], "W",
    DigitChars[(p.week \div 10) + 1], DigitChars[(p.week % 10) + 1]>>

\* the mean over the days with the given ISO pair of the day averages
MeanOfPair(p, c) ==
  LET days == SortedInts({d \in {rows[i].at[1] : i \in 1..Len(rows)} : IsoPair(d) = p})
  IN  Mean([i \in 1..Len(days) |-> DayAverage(days[i], c)])

\* C19: each daily average goes to the ISO (year, week) pair of its date,
\* and the row of a pair is labelled YYYYWww with the ISO year and the
\* zero-padded week: 2024-12-30 is in 2025W01 and 2021-01-01 in 2020W53,
\* never under the calendar year where the ISO year differs.
C19_LabelsUseIsoYear ==
  (mcall.fn = "pivot_scale_measurements_weekly" /\ mcall.ret.ok) =>
    /\ {mcall.ret.table[k].week : k \in 1..Len(mcall.ret.table)}
         = {LabelOfPair(IsoPair(rows[i].at[1])) : i \in 1..Len(rows)}
    /\ \A i \in 1..Len(rows) : \A k \in 1..Len(mcall.ret.table) :
         mcall.ret.table[k].week = LabelOfPair(IsoPair(rows[i].at[1])) =>
           mcall.ret.table[k].vals["weight_kg"] = MeanOfPair(IsoPair(rows[i].at[1]), "weight_kg")
    /\ \A i \in 1..Len(rows) :
         /\ rows[i].at[1] = Ymd2Ord(2024, 12, 30) =>
              \E k \in 1..Len(mcall.ret.table) : mcall.ret.table[k].week = <<"2", "0", "2", "5", "W", "0", "1">>
         /\ rows[i].at[1] = Ymd2Ord(2021, 1, 1) =>
              \E k \in 1..Len(mcall.ret.table) : mcall.ret.table[k].week = <<"2", "0", "2", "0", "W", "5", "3">>

\* samples of 2021-01-01 and 2024-12-30 were pivoted into the rows 2020W53
\* and 2025W01
C19_Witness ==
  /\ mcall.fn = "pivot_scale_measurements_weekly"
  /\ Len(rows) = 2
  /\ rows[1].at[1] = Ymd2Ord(2021, 1, 1)
  /\ rows[2].at[1] = Ymd2Ord(2024, 12, 30)
  /\ mcall.ret.ok
  /\ Len(mcall.ret.table) = 2
  /\ mcall.ret.table[1].week = <<"2", "0", "2", "0", "W", "5", "3">>
  /\ mcall.ret.table[2].week = <<"2", "0", "2", "5", "W", "0", "1">>

(***************************************************************************)
(* Claims about the groups the normalizer keeps                            *)
(***************************************************************************)
\* the group without its triples of unrecognized type
WithoutUnknownTypes(grp) ==
  LET Known(m) == m.type \in MeasureType
  IN  [grp EXCEPT !.measures = SelectSeq(grp.measures, Known)]

\* C20: _transform_measure_groups returns exactly one record for each group
\* of category 1 and none for any other group, in ascending order of the
\* timestamp; a triple of unrecognized type raises nothing and leaves every
\* field of the record of its group as it is without the triple.
C20_OneRecordPerRealGroup ==
  tcall.fn = "_transform_measure_groups" =>
    /\ Len(tcall.ret) = Cardinality({i \in 1..Len(groups) : groups[i].category = 1})
    /\ \A i \in 1..Len(groups) :
         Cardinality({k \in 1..Len(tcall.ret) : tcall.ret[k].group_id = groups[i].grpid})
           = IF groups[i].category = 1 THEN 1 ELSE 0
    /\ \A k \in 1..(Len(tcall.ret) - 1) : tcall.ret[k].timestamp <= tcall.ret[k + 1].timestamp
    /\ \A k \in 1..Len(tcall.ret) :
         tcall.ret[k] = RecordOfGroup(WithoutUnknownTypes(GroupOfRow(tcall.ret[k])))

\* of a group of another category and a real measurement with a triple of
\* type 11 and a weight, only the real measurement gave a record, with its
\* weight and nothing else
C20_Witness ==
  /\ tcall.fn = "_transform_measure_groups"
  /\ Len(groups) = 2
  /\ groups[1].category = 2 /\ groups[1].measures = <<>>
  /\ groups[2].category = 1
  /\ groups[2].measures = <<[type |-> 11, value |-> 4, unit |-> 1],
                            [type |-> 1, value |-> 80000, unit |-> 0 - 3]>>
  /\ Len(tcall.ret) = 1
  /\ tcall.ret[1].group_id = groups[2].grpid
  /\ tcall.ret[1].vals["weight_kg"] = Num(80)
  /\ \A f \in FieldNames \ {"weight_kg"} : tcall.ret[1].vals[f] = NaN

(***************************************************************************)
(* Claims about the order of the tokens of a range                         *)
(***************************************************************************)
\* (year, week) pair a comes before pair b
WeekBefore(a, b) == a.year < b.year \/ (a.year = b.year /\ a.week < b.week)

\* the start token of the call names a week of the ISO calendar
StartIsValid ==
  /\ Parsed(wcall.start_week, wcall.now).ok
  /\ ExistsInIsoCalendar(Parsed(wcall.start_week, wcall.now).year,
                         Parsed(wcall.start_week, wcall.now).week)

\* C24: resolve_week_range does not compare its tokens: with valid tokens
\* and the end week earlier than the start week it returns a range whose
\* end is at or before its start, and without an end token and with the
\* start week the current or a later week it returns end <= start with
\* end_week_code earlier than start_week_code.
C24_NoOrderingCheck ==
  (wcall.fn = "resolve_week_range" /\ StartIsValid) =>
    LET s == Parsed(wcall.start_week, wcall.now)
    IN  /\ (/\ wcall.end_week # None
            /\ Parsed(wcall.end_week[1], wcall.now).ok
            /\ WeekBefore(Parsed(wcall.end_week[1], wcall.now), s)) =>
              /\ wcall.ret.ok
              /\ SecondsBetween(wcall.ret.end, wcall.ret.start) <= 0
        /\ (/\ wcall.end_week = None
            /\ ~WeekBefore(s, [year |-> IsoCalendar(wcall.now).year,
                               week |-> IsoCalendar(wcall.now).week])) =>
              /\ wcall.ret.ok
              /\ SecondsBetween(wcall.ret.end, wcall.ret.start) <= 0
              /\ WeekBefore(Parsed(wcall.ret.end_week_code, wcall.now),
                            Parsed(wcall.ret.start_week_code, wcall.now))

\* 2025W40..2025W01 was resolved to a range that ends on 6 January 2025,
\* before it starts on 29 September 2025
C24_Witness ==
  /\ wcall.fn = "resolve_week_range"
  /\ wcall.start_week = <<"2", "0", "2", "5", "W", "4", "0">>
  /\ wcall.end_week = Some(<<"2", "0", "2", "5", "W", "0", "1">>)
  /\ wcall.ret.ok
  /\ wcall.ret.start.ord = Ymd2Ord(2025, 9, 29)
  /\ wcall.ret.end.ord = Ymd2Ord(2025, 1, 6)

(***************************************************************************)
(* Claims about a sample table that lacks a column                         *)
(***************************************************************************)
\* C22: given a non-empty sample table that lacks one of the expected
\* metric columns, pivot_scale_measurements_weekly does not fail: it returns
\* the weekly table with all six output columns, the column of the missing
\* metric filled with absent values.
C22_MissingColumnFilledWithNaN ==
  (/\ mcall.fn = "pivot_scale_measurements_weekly"
   /\ "lacking" \in DOMAIN mcall
   /\ rows # <<>>) =>
    /\ mcall.ret.ok
    /\ mcall.ret.columns = <<"Week number">> \o Labels(value_cols)
    /\ \A k \in 1..Len(mcall.ret.table) :
         /\ DOMAIN mcall.ret.table[k].vals = ValueCols
         /\ mcall.ret.table[k].vals[mcall.lacking] = NaN

(***************************************************************************)
(* Claims about the weeks of the output of fetch-measures                  *)
(***************************************************************************)
\* C23: on the API path of fetch_measures every week code of the output
\* table lies between start_week_code and end_week_code of the range, for
\* every local timezone: no sample that passes the window filter is
\* aggregated into a week outside the requested range.
C23_OutputWeeksWithinRange ==
  (mcall.fn = "fetch_measures" /\ mcall.path = "api" /\ mcall.ret.ok) =>
    \A k \in 1..Len(mcall.ret.weekly_df) :
      /\ ~StrLess(mcall.ret.weekly_df[k].week, mcall.ret.week_range.start_week_code)
      /\ ~StrLess(mcall.ret.week_range.end_week_code, mcall.ret.weekly_df[k].week)

(***************************************************************************)
(* Claims about the stored tokens                                          *)
(***************************************************************************)
\* the answer is a successful refresh response
IsRefreshSuccess(resp) == resp.status_code = 200 /\ resp.status = 0

\* C21: get_valid_access_token fails with the no-stored-tokens error when
\* no token record is stored; otherwise it refreshes exactly when the time
\* of the call is at or after expires_at - 30 seconds, persisting and
\* returning the new access token of a successful refresh, and it returns
\* the stored access token with no request when expiry is further away.
C21_RefreshWithinThirtySeconds ==
  \A i \in 1..Len(acalls) :
    LET c == acalls[i]
    IN  /\ c.stored = None =>
             /\ ~c.ok
             /\ c.error = "No stored tokens; run authorization flow first."
             /\ c.posted = <<>>
        /\ (c.stored # None /\ "expires_at" \in DOMAIN c.stored[1]) =>
             /\ c.posted # <<>> <=> c.now >= c.stored[1].expires_at - 30
             /\ c.now < c.stored[1].expires_at - 30 =>
                  /\ c.ok
                  /\ c.access_token = c.stored[1].access_token
                  /\ c.file = c.stored
             /\ (/\ c.posted # <<>>
                 /\ IsRefreshSuccess(c.resp[1])
                 /\ "access_token" \in DOMAIN c.resp[1].body) =>
                  /\ Len(c.posted) = 1
                  /\ c.posted[1].refresh_token = c.stored[1].refresh_token
                  /\ c.ok
                  /\ c.access_token = c.resp[1].body.access_token
                  /\ c.file # None
                  /\ c.file[1].access_token = c.resp[1].body.access_token

\* 31 seconds before expiry the stored token a1 was returned with no
\* request; one second later the token was refreshed and a2 returned
C21_Witness ==
  /\ Len(acalls) = 2
  /\ acalls[1].stored # None /\ acalls[1].stored[1].access_token = "a1"
  /\ "expires_at" \in DOMAIN acalls[1].stored[1]
  /\ acalls[1].stored[1].expires_at = 31
  /\ acalls[1].now = 0 /\ acalls[1].posted = <<>> /\ acalls[1].access_token = "a1"
  /\ acalls[2].now = 1 /\ Len(acalls[2].posted) = 1 /\ acalls[2].access_token = "a2"
  /\ token_file # None /\ token_file[1].access_token = "a2"
  /\ Len(posts) = 1

\* C25: when a refresh fails (HTTP status other than 200 or API status
\* other than 0) the stored token record is left as it was and
\* get_valid_access_token returns no token; the record is replaced only
\* after a successful refresh response, and a successful response without
\* refresh_token, scope or userid keeps the stored values of those fields.
C25_FailedRefreshKeepsRecord ==
  \A i \in 1..Len(acalls) :
    LET c == acalls[i]
    IN  /\ (c.posted # <<>> /\ ~IsRefreshSuccess(c.resp[1])) =>
             /\ c.file = c.stored
             /\ ~c.ok
             /\ c.access_token = ""
        /\ c.file # c.stored => (c.posted # <<>> /\ IsRefreshSuccess(c.resp[1]))
        /\ (/\ c.posted # <<>>
            /\ IsRefreshSuccess(c.resp[1])
            /\ "access_token" \in DOMAIN c.resp[1].body) =>
             \A f \in {"refresh_token", "scope", "userid"} :
               (f \notin DOMAIN c.resp[1].body /\ f \in DOMAIN c.stored[1]) =>
                 c.file[1][f] = c.stored[1][f]

\* a refresh answered with HTTP 500 left the record as it was, and the next
\* one, answered with a new access token only, kept r1, s1 and user 5
C25_Witness ==
  /\ Len(acalls) = 2
  /\ acalls[1].posted # <<>> /\ acalls[1].resp[1].status_code = 500
  /\ ~acalls[1].ok
  /\ acalls[1].file = acalls[1].stored
  /\ acalls[2].stored = acalls[1].stored
  /\ acalls[2].posted # <<>> /\ acalls[2].ok /\ acalls[2].access_token = "a4"
  /\ token_file # None
  /\ token_file[1].access_token = "a4"
  /\ token_file[1].refresh_token = "r1"
  /\ token_file[1].scope = "s1"
  /\ token_file[1].userid = Some(5)

====
